---- MODULE Spec2Model ----
(***************************************************************************)
(* The process supervisor of minecraft-server-controller                   *)
(* (services/server_manager.go): the table of running servers, the         *)
(* lifecycle of one server process (start, stop, restart, exit monitor),   *)
(* its stdin pipe and its console listeners.                                *)
(*                                                                         *)
(* Twelve specifications share the state and the actions; they differ in  *)
(* the services their environment calls and in their bounds:              *)
(*   Spec      start, stop and restart of one unit by concurrent callers   *)
(*   SpecConn  the same with a console listener and distinct exit codes    *)
(*   FairSpec  two units, commands written to stdin, fair scheduling       *)
(*   SpecSub   console listeners of one unit: attach, broadcast, detach    *)
(*   SpecLog   the log buffer of one unit: append, replay, getLogs         *)
(*   SpecRead  getLogs against start, stop and exit of one unit            *)
(*   SpecStats getServerStats against start, stop and exit of one unit     *)
(*   SpecStrip stripAnsiCodes applied to every short line of bytes         *)
(*   SpecSlow  a listener whose peer stops reading, fair scheduling        *)
(*   SpecExit  stop and exit of one unit with a listener, fair scheduling  *)
(*   SpecLock  every service that takes a lock, one unit, fair scheduling  *)
(*   SpecFrame two units: calls on unit 1, a listener on unit 2            *)
(***************************************************************************)
EXTENDS Integers, Sequences, FiniteSets, TLC

\* ------------------------------------------------------------------ bounds
MaxHandles  == 3     \* Spec: ServerProcess values created in one run
MaxLive     == 2     \* Spec: of them, those whose exit monitor has not returned
NumCallers  == 2     \* concurrent HTTP handler goroutines calling the services
ConnHandles == 2     \* SpecConn: ServerProcess values created in one run
ConnCallers == 1     \* SpecConn: concurrent callers
NumConns    == 1     \* SpecConn: websocket connections
SubConns    == 2     \* SpecSub: websocket connections
SubLines    == 1     \* SpecSub: lines the process writes to each of its streams
LogLines    == 2     \* SpecLog: lines the process writes to each of its streams
LogCap      == 2     \* lines sp.Logs keeps (1000 in the code)
FairHandles == 2     \* FairSpec: ServerProcess values created in one run
TextLen     == 5     \* SpecStrip: bytes of a line given to stripAnsiCodes
SlowLines   == 2     \* SpecSlow: lines the process writes to its stdout
ReadHandles == 2     \* SpecRead: ServerProcess values created in one run
ReadLines   == 1     \* SpecRead: lines the process writes to its stdout
PipeCap     == 2     \* writes the stdin pipe buffers before a write blocks

Units    == {1, 2}             \* models.Server ids
Handles  == 1..MaxHandles
Callers  == 1..NumCallers
Conns    == 1..SubConns
NoHandle == 0
Streams  == {"out", "err"}     \* the two pipes readOutput is started on

\* exit codes a process can end with; a process ended by a signal reports -1
ExitCodes  == {0, 1}
SignalCode == 0 - 1

\* bytes of an output line: ESC, '[', 'm', a letter that is not 'm', and a
\* byte above 0x7F, as the UTF-8 form of every character outside ASCII has;
\* and the lines of at most TextLen bytes
ESC      == 27
LBracket == 91
LetterM  == 109
LetterA  == 97
HighByte == 233
Bytes == {ESC, LBracket, LetterM, LetterA, HighByte}
Texts == UNION {[1..n -> Bytes] : n \in 0..TextLen}

\* startup commands, as character sequences (" " is white space)
StartupCommands == { <<>>, <<" ">>, <<"j", " ", "a">> }

\* what the operating system does at launch
LaunchEnvs == {"ok", "stdinPipeErr", "stdoutPipeErr", "stderrPipeErr", "startErr"}

VARIABLES
    runningServers,  \* runningServers[u]: the handle registered for unit u, or NoHandle
    serverMux,       \* 0 when free, else the caller holding it across steps
    status,          \* status[u]: the stored Status of unit u
    startedAt,       \* startedAt[u]: TRUE when StartedAt is set, FALSE when nil
    nextH,           \* number of handles created so far
    hUnit,           \* hUnit[h]: sp.Server.ID
    proc,            \* proc[h]: "none", "alive", "exited"
    exitCode,        \* exitCode[h]: the code the process ended with
    killSent,        \* killSent[h]: Process.Kill() was called
    stdinBuf,        \* stdinBuf[h]: writes buffered in the stdin pipe, not yet read,
                     \* oldest first
    waiter,          \* waiter[h]: the goroutine of StopServer running Cmd.Wait()
    monPc,           \* monPc[h]: position of monitorProcess
    monCode,         \* monCode[h]: exitCode computed by monitorProcess
    clients,         \* clients[h]: sp.Clients
    pc,              \* pc[c]: position of caller c
    op,              \* op[c]: the service the caller is in
    unit,            \* unit[c]: the unit of the call
    target,          \* target[c]: the handle the call looked up (sp)
    path,            \* path[c]: branch of the select StopServer took
    ret,             \* <<service, unit, result>> of the call that returned last
    connPc,          \* connPc[k]: position of the websocket handler of k
    connH,           \* connH[k]: the handle AddConsoleListener looked up
    connLast,        \* connLast[k]: the last message written to k
    connClosed,      \* connClosed[k]: Close() was called on k
    okStarts,        \* okStarts[u]: successful starts since the last stop or exit
    logs,            \* logs[h]: sp.Logs
    hist,            \* hist[h]: every line appended to sp.Logs so far, in order
    rdPc,            \* rdPc[h][s]: position of readOutput for stream s
    rdN,             \* rdN[h][s]: lines readOutput has scanned from stream s
    snap,            \* the slice GetLogs returned last
    recv,            \* recv[k]: the console lines written to k, in order
    peerGone,        \* peerGone[k]: the peer of k has gone, writes and reads fail
    detH,            \* detH[k]: the handle RemoveConsoleListener looked up
    connIdx,         \* connIdx[k]: lines of sp.Logs already replayed to k
    early,           \* early[k]: "added" when k entered sp.Clients before any
                     \* line was appended, "returned" when AddConsoleListener
                     \* also returned before any line was appended, else "no"
    arg,             \* arg[c]: the command text of a SendCommand call
    stats,           \* the ServerStats GetServerStats returned last
    rawLine,         \* the text stripAnsiCodes is called with
    cleanLine,       \* <<result>> once stripAnsiCodes has returned, else <<>>
    stalled          \* stalled[k]: the peer of k reads no more and the buffers
                     \* on the way to it are full: a write to k does not return

tableVars == <<runningServers, serverMux, status, startedAt>>
procVars  == <<nextH, hUnit, proc, exitCode, killSent, stdinBuf, waiter>>
monVars   == <<monPc, monCode>>
callVars  == <<pc, op, unit, target, path, ret>>
connVars  == <<connPc, connH, connLast, connClosed>>
logVars   == <<logs, hist, rdPc, rdN, snap>>
subVars   == <<recv, peerGone, detH, connIdx, early>>
miscVars  == <<stats, rawLine, cleanLine, stalled>>
ioVars    == <<logVars, subVars, arg, miscVars>>
vars == <<tableVars, procVars, monVars, clients, callVars, connVars, okStarts,
          ioVars>>

\* ------------------------------------------------------------ pure helpers
RECURSIVE FieldsFrom(_, _, _)
FieldsFrom(s, cur, acc) ==
    IF s = <<>> THEN (IF cur = <<>> THEN acc ELSE Append(acc, cur))
    ELSE IF Head(s) = " "
         THEN FieldsFrom(Tail(s), <<>>, IF cur = <<>> THEN acc ELSE Append(acc, cur))
         ELSE FieldsFrom(Tail(s), Append(cur, Head(s)), acc)

\* strings.Fields: the maximal runs of non-space characters
Fields(s) == FieldsFrom(s, <<>>, <<>>)

\* the command texts SendCommand is called with, and what is written to
\* stdin: command + "\n"
Commands == { <<"s", "a", "y">> }
CommandBytes(text) == Append(text, "\n")
StopBytes == <<"s", "t", "o", "p", "\n">>
EndBytes  == <<"e", "n", "d", "\n">>

\* messages a connection can be sent
StoppedMsg       == <<"stopped">>                \* "=== Server stopped ==="
ExitMsg(code)    == <<"stopped", code>>          \* "=== Server stopped (exit code: N) ==="
NotRunningMsg    == <<"error">>                  \* "Error: Server is not running"
NoMsg            == <<>>

RECURSIVE SendAll(_, _, _)
\* the loop `for _, client := range sp.Clients { WriteMessage; Close }`
\* applied to the pair <<connLast, connClosed>>; a write to a closed
\* connection fails and delivers nothing
SendAll(cs, msg, st) ==
    IF cs = <<>> THEN st
    ELSE LET k == Head(cs)
             last == IF st[2][k] THEN st[1] ELSE [st[1] EXCEPT ![k] = msg]
         IN  SendAll(Tail(cs), msg, <<last, [st[2] EXCEPT ![k] = TRUE]>>)

\* &ServerStats{MemoryMB, PID, IsRunning} (MemoryGB is MemoryMB / 1024)
Stats(running, pid, mb) == [IsRunning |-> running, PID |-> pid, MemoryMB |-> mb]
NoStats == Stats(FALSE, 0, 0)

\* index of the first client of cs whose writes do not return, 0 when there
\* is none
RECURSIVE FirstStalled(_, _)
FirstStalled(cs, i) ==
    IF i > Len(cs) THEN 0
    ELSE IF stalled[cs[i]] THEN i ELSE FirstStalled(cs, i + 1)

\* the clients a loop over cs writes to before it blocks in a write
BeforeStall(cs) ==
    IF FirstStalled(cs, 1) = 0 THEN cs ELSE SubSeq(cs, 1, FirstStalled(cs, 1) - 1)

\* sp.ClientMux of handle h is held by a goroutine that is blocked in a write
\* to a stalled client: a reader in its broadcast, or the exit monitor in its
\* final line
ClientMuxHeld(h) ==
    \/ \E s \in Streams : rdPc[h][s] = "blocked"
    \/ monPc[h] = "blocked"

\* ------------------------------------------------------------------ Init
\* the state after the package is initialised: no server runs, no call is
\* under way, no connection is open
InitSupervisor ==
    /\ runningServers = [u \in Units |-> NoHandle]
    /\ serverMux = 0
    /\ status = [u \in Units |-> "offline"]
    /\ startedAt = [u \in Units |-> FALSE]
    /\ nextH = 0
    /\ hUnit = [h \in Handles |-> 0]
    /\ proc = [h \in Handles |-> "none"]
    /\ exitCode = [h \in Handles |-> 0]
    /\ killSent = [h \in Handles |-> FALSE]
    /\ stdinBuf = [h \in Handles |-> <<>>]
    /\ waiter = [h \in Handles |-> "none"]
    /\ monPc = [h \in Handles |-> "none"]
    /\ monCode = [h \in Handles |-> 0]
    /\ clients = [h \in Handles |-> <<>>]
    /\ pc = [c \in Callers |-> "idle"]
    /\ op = [c \in Callers |-> "none"]
    /\ unit = [c \in Callers |-> 0]
    /\ target = [c \in Callers |-> NoHandle]
    /\ path = [c \in Callers |-> "none"]
    /\ ret = <<"none", 0, "none">>
    /\ connPc = [k \in Conns |-> "new"]
    /\ connH = [k \in Conns |-> NoHandle]
    /\ connLast = [k \in Conns |-> NoMsg]
    /\ connClosed = [k \in Conns |-> FALSE]
    /\ okStarts = [u \in Units |-> 0]
    /\ logs = [h \in Handles |-> <<>>]
    /\ hist = [h \in Handles |-> <<>>]
    /\ rdPc = [h \in Handles |-> [s \in Streams |-> "scan"]]
    /\ rdN = [h \in Handles |-> [s \in Streams |-> 0]]
    /\ snap = <<>>
    /\ recv = [k \in Conns |-> <<>>]
    /\ peerGone = [k \in Conns |-> FALSE]
    /\ detH = [k \in Conns |-> NoHandle]
    /\ connIdx = [k \in Conns |-> 0]
    /\ early = [k \in Conns |-> "no"]
    /\ arg = [c \in Callers |-> <<>>]
    /\ stats = NoStats
    /\ stalled = [k \in Conns |-> FALSE]

Init ==
    /\ InitSupervisor
    /\ rawLine = <<>>
    /\ cleanLine = <<>>

\* the handles whose exit monitor is still running
Unfinished == {h \in Handles : monPc[h] \in {"wait", "lock", "status", "close"}}

\* ------------------------------------------------------------- StartServer
StreamErrs == {"stdinPipeErr", "stdoutPipeErr", "stderrPipeErr"}

\* the error StartServer returns, in the order the code tests
StartResult(u, cmd, env) ==
    IF runningServers[u] # NoHandle THEN "AlreadyRunning"
    ELSE IF Len(Fields(cmd)) = 0 THEN "InvalidCommand"
    ELSE IF env \in StreamErrs THEN "StreamSetupFailed"
    ELSE IF env = "startErr" THEN "LaunchFailed"
    ELSE "ok"

\* the caller returns r from a call of service o on unit u
Return(c, o, u, r) ==
    /\ pc' = [pc EXCEPT ![c] = "idle"]
    /\ op' = [op EXCEPT ![c] = "none"]
    /\ unit' = [unit EXCEPT ![c] = 0]
    /\ target' = [target EXCEPT ![c] = NoHandle]
    /\ path' = [path EXCEPT ![c] = "none"]
    /\ ret' = <<o, u, r>>

\* StartFail with the status written before the launch is known to succeed
StartFail_StatusFirst(c, u, o, r) ==
    /\ Return(c, o, u, r)
    /\ status' = [status EXCEPT ![u] = "online"]
    /\ startedAt' = [startedAt EXCEPT ![u] = TRUE]
    /\ UNCHANGED <<runningServers, serverMux, procVars, monVars, clients,
                   connVars, okStarts>>
    /\ UNCHANGED ioVars

\* an early return of StartServer with error r: only the lock was taken
StartFail(c, u, o, r) ==
    /\ Return(c, o, u, r)
    /\ UNCHANGED <<tableVars, procVars, monVars, clients, connVars, okStarts>>
    /\ UNCHANGED ioVars

\* StartLaunch on the ServerProcess of the last run when that has ended, in
\* place of a new one
StartLaunch_ReusesHandle(c, u, o, lim) ==
    LET h == IF nextH > 0 /\ proc[nextH] = "exited" /\ monPc[nextH] = "done"
             THEN nextH ELSE nextH + 1 IN
    /\ nextH < lim.handles
    /\ Cardinality(Unfinished) < lim.live
    /\ nextH' = h
    /\ hUnit' = [hUnit EXCEPT ![h] = u]
    /\ proc' = [proc EXCEPT ![h] = "alive"]
    /\ runningServers' = [runningServers EXCEPT ![u] = h]
    /\ status' = [status EXCEPT ![u] = "online"]
    /\ startedAt' = [startedAt EXCEPT ![u] = TRUE]
    /\ monPc' = [monPc EXCEPT ![h] = "wait"]
    /\ okStarts' = [okStarts EXCEPT ![u] = @ + 1]
    /\ Return(c, o, u, "ok")
    /\ UNCHANGED <<serverMux, exitCode, killSent, stdinBuf, waiter, monCode,
                   clients, connVars>>
    /\ UNCHANGED ioVars

\* the process was created: register the handle, set the status, start the
\* exit monitor (the two output readers are silent in this specification)
StartLaunch(c, u, o, lim) ==
    LET h == nextH + 1 IN
    /\ nextH < lim.handles
    /\ Cardinality(Unfinished) < lim.live
    /\ nextH' = h
    /\ hUnit' = [hUnit EXCEPT ![h] = u]
    /\ proc' = [proc EXCEPT ![h] = "alive"]
    /\ runningServers' = [runningServers EXCEPT ![u] = h]
    /\ status' = [status EXCEPT ![u] = "online"]
    /\ startedAt' = [startedAt EXCEPT ![u] = TRUE]
    /\ monPc' = [monPc EXCEPT ![h] = "wait"]
    /\ okStarts' = [okStarts EXCEPT ![u] = @ + 1]
    /\ Return(c, o, u, "ok")
    /\ UNCHANGED <<serverMux, exitCode, killSent, stdinBuf, waiter, monCode,
                   clients, connVars>>
    /\ UNCHANGED ioVars

\* StartServer runs under serverMux from its first line to its return
StartServer(c, u, cmd, env, o, lim) ==
    /\ serverMux = 0
    /\ LET r == StartResult(u, cmd, env) IN
       IF r = "ok" THEN StartLaunch(c, u, o, lim) ELSE StartFail(c, u, o, r)

Start(c, u, lim) ==
    /\ pc[c] = "idle"
    /\ \E cmd \in StartupCommands, env \in LaunchEnvs :
           StartServer(c, u, cmd, env, "start", lim)

\* -------------------------------------------------------------- StopServer
\* a call of service o on unit u goes on to position p with handle h
Enter(c, o, u, h, p) ==
    /\ pc' = [pc EXCEPT ![c] = p]
    /\ op' = [op EXCEPT ![c] = o]
    /\ unit' = [unit EXCEPT ![c] = u]
    /\ target' = [target EXCEPT ![c] = h]
    /\ UNCHANGED <<path, ret>>

\* StopNotRunning with the error dropped: the call returns nil
StopNotRunning_ReturnsNil(c, u) ==
    /\ runningServers[u] = NoHandle
    /\ Return(c, "stop", u, "ok")
    /\ okStarts' = [okStarts EXCEPT ![u] = 0]
    /\ UNCHANGED <<tableVars, procVars, monVars, clients, connVars>>
    /\ UNCHANGED ioVars

\* no entry for the unit: "server is not running"
StopNotRunning(c, u) ==
    /\ runningServers[u] = NoHandle
    /\ Return(c, "stop", u, "NotRunning")
    /\ okStarts' = [okStarts EXCEPT ![u] = 0]
    /\ UNCHANGED <<tableVars, procVars, monVars, clients, connVars>>
    /\ UNCHANGED ioVars

\* the entry is found; serverMux stays locked until StopServer returns
StopLookup(c, u, o) ==
    /\ runningServers[u] # NoHandle
    /\ serverMux' = c
    /\ Enter(c, o, u, runningServers[u], "stopW1")
    /\ okStarts' = [okStarts EXCEPT ![u] = 0]
    /\ UNCHANGED <<runningServers, status, startedAt, procVars, monVars,
                   clients, connVars>>
    /\ UNCHANGED ioVars

Stop(c, u) ==
    /\ pc[c] = "idle"
    /\ serverMux = 0
    /\ (StopNotRunning(c, u) \/ StopLookup(c, u, "stop"))

\* a write to the stdin pipe of handle h: it fails when the process is gone,
\* it blocks while the process lives and the pipe is full
CanWrite(h) == proc[h] # "alive" \/ Len(stdinBuf[h]) < PipeCap
PipeWrite(h, data) ==
    stdinBuf' = [stdinBuf EXCEPT ![h] = IF proc[h] = "alive" THEN Append(@, data) ELSE @]

\* sp.Stdin.Write("stop\n"), then sp.Stdin.Write("end\n") and the goroutine
\* `done <- sp.Cmd.Wait()`; the errors of the writes are dropped
StopWrite(c) ==
    LET h == target[c] IN
    /\ pc[c] \in {"stopW1", "stopW2"}
    /\ CanWrite(h)
    /\ PipeWrite(h, IF pc[c] = "stopW1" THEN StopBytes ELSE EndBytes)
    /\ pc' = [pc EXCEPT ![c] = IF pc[c] = "stopW1" THEN "stopW2" ELSE "stopSel"]
    /\ waiter' = [waiter EXCEPT ![h] = IF pc[c] = "stopW2" THEN "waiting" ELSE @]
    /\ UNCHANGED <<tableVars, nextH, hUnit, proc, exitCode, killSent, monVars,
                   clients, op, unit, target, path, ret, connVars, okStarts>>
    /\ UNCHANGED ioVars

\* StopGraceful followed by Process.Kill() all the same
StopGraceful_Kills(c) ==
    LET h == target[c] IN
    /\ pc[c] = "stopSel"
    /\ proc[h] = "exited"
    /\ waiter' = [waiter EXCEPT ![h] = "done"]
    /\ killSent' = [killSent EXCEPT ![h] = TRUE]
    /\ pc' = [pc EXCEPT ![c] = "stopClean"]
    /\ path' = [path EXCEPT ![c] = "graceful"]
    /\ UNCHANGED <<tableVars, nextH, hUnit, proc, exitCode, stdinBuf,
                   monVars, clients, op, unit, target, ret, connVars, okStarts>>
    /\ UNCHANGED ioVars

\* case <-done: Cmd.Wait() of the goroutine returned
StopGraceful(c) ==
    LET h == target[c] IN
    /\ pc[c] = "stopSel"
    /\ proc[h] = "exited"
    /\ waiter' = [waiter EXCEPT ![h] = "done"]
    /\ pc' = [pc EXCEPT ![c] = "stopClean"]
    /\ path' = [path EXCEPT ![c] = "graceful"]
    /\ UNCHANGED <<tableVars, nextH, hUnit, proc, exitCode, killSent, stdinBuf,
                   monVars, clients, op, unit, target, ret, connVars, okStarts>>
    /\ UNCHANGED ioVars

\* StopTimeout without the call of Process.Kill()
StopTimeout_NoKill(c) ==
    LET h == target[c] IN
    /\ pc[c] = "stopSel"
    /\ proc[h] = "alive"
    /\ pc' = [pc EXCEPT ![c] = "stopClean"]
    /\ path' = [path EXCEPT ![c] = "timeout"]
    /\ UNCHANGED <<tableVars, procVars, monVars, clients, op, unit, target,
                   ret, connVars, okStarts>>
    /\ UNCHANGED ioVars

\* case <-time.After(30s): the process is still there, Process.Kill()
StopTimeout(c) ==
    LET h == target[c] IN
    /\ pc[c] = "stopSel"
    /\ proc[h] = "alive"
    /\ killSent' = [killSent EXCEPT ![h] = TRUE]
    /\ pc' = [pc EXCEPT ![c] = "stopClean"]
    /\ path' = [path EXCEPT ![c] = "timeout"]
    /\ UNCHANGED <<tableVars, nextH, hUnit, proc, exitCode, stdinBuf, waiter,
                   monVars, clients, op, unit, target, ret, connVars, okStarts>>
    /\ UNCHANGED ioVars

\* StopCleanup put off, with serverMux held, until the exit monitor of the
\* handle has returned
StopCleanup_AwaitsMonitor(c) ==
    LET h == target[c]
        u == unit[c]
        st == SendAll(clients[h], StoppedMsg, <<connLast, connClosed>>)
    IN
    /\ pc[c] = "stopClean"
    /\ monPc[h] = "done"
    \* the call does not get here while sp.ClientMux is held by a blocked
    \* writer, nor past a client whose writes do not return
    /\ ~ClientMuxHeld(h)
    /\ FirstStalled(clients[h], 1) = 0
    /\ runningServers' = [runningServers EXCEPT ![u] = NoHandle]
    /\ status' = [status EXCEPT ![u] = "offline"]
    /\ startedAt' = [startedAt EXCEPT ![u] = FALSE]
    /\ connLast' = st[1]
    /\ connClosed' = st[2]
    /\ clients' = [clients EXCEPT ![h] = <<>>]
    /\ serverMux' = 0
    /\ IF op[c] = "restart"
       THEN /\ pc' = [pc EXCEPT ![c] = "rstSleep"]
            /\ target' = [target EXCEPT ![c] = NoHandle]
            /\ path' = [path EXCEPT ![c] = "none"]
            /\ UNCHANGED <<op, unit, ret>>
       ELSE Return(c, "stop", u, "ok")
    /\ UNCHANGED <<procVars, monVars, connPc, connH, okStarts>>
    /\ UNCHANGED ioVars

\* StopCleanup without `sp.Clients = []*websocket.Conn{}`
StopCleanup_KeepsClients(c) ==
    LET h == target[c]
        u == unit[c]
        st == SendAll(clients[h], StoppedMsg, <<connLast, connClosed>>)
    IN
    /\ pc[c] = "stopClean"
    \* the call does not get here while sp.ClientMux is held by a blocked
    \* writer, nor past a client whose writes do not return
    /\ ~ClientMuxHeld(h)
    /\ FirstStalled(clients[h], 1) = 0
    /\ runningServers' = [runningServers EXCEPT ![u] = NoHandle]
    /\ status' = [status EXCEPT ![u] = "offline"]
    /\ startedAt' = [startedAt EXCEPT ![u] = FALSE]
    /\ connLast' = st[1]
    /\ connClosed' = st[2]
    /\ UNCHANGED clients
    /\ serverMux' = 0
    /\ IF op[c] = "restart"
       THEN /\ pc' = [pc EXCEPT ![c] = "rstSleep"]
            /\ target' = [target EXCEPT ![c] = NoHandle]
            /\ path' = [path EXCEPT ![c] = "none"]
            /\ UNCHANGED <<op, unit, ret>>
       ELSE Return(c, "stop", u, "ok")
    /\ UNCHANGED <<procVars, monVars, connPc, connH, okStarts>>
    /\ UNCHANGED ioVars

\* delete(runningServers, server.ID); server.SetStatus("offline"); the final
\* line to every client, Close, sp.Clients = {}; return nil (unlock)
StopCleanup(c) ==
    LET h == target[c]
        u == unit[c]
        st == SendAll(clients[h], StoppedMsg, <<connLast, connClosed>>)
    IN
    /\ pc[c] = "stopClean"
    \* the call does not get here while sp.ClientMux is held by a blocked
    \* writer, nor past a client whose writes do not return
    /\ ~ClientMuxHeld(h)
    /\ FirstStalled(clients[h], 1) = 0
    /\ runningServers' = [runningServers EXCEPT ![u] = NoHandle]
    /\ status' = [status EXCEPT ![u] = "offline"]
    /\ startedAt' = [startedAt EXCEPT ![u] = FALSE]
    /\ connLast' = st[1]
    /\ connClosed' = st[2]
    /\ clients' = [clients EXCEPT ![h] = <<>>]
    /\ serverMux' = 0
    /\ IF op[c] = "restart"
       THEN /\ pc' = [pc EXCEPT ![c] = "rstSleep"]
            /\ target' = [target EXCEPT ![c] = NoHandle]
            /\ path' = [path EXCEPT ![c] = "none"]
            /\ UNCHANGED <<op, unit, ret>>
       ELSE Return(c, "stop", u, "ok")
    /\ UNCHANGED <<procVars, monVars, connPc, connH, okStarts>>
    /\ UNCHANGED ioVars

\* ----------------------------------------------------------- RestartServer
\* RestartNotRunning without the test of the error text: the error of
\* StopServer is returned
RestartNotRunning_ReturnsErr(c, u) ==
    /\ runningServers[u] = NoHandle
    /\ Return(c, "restart", u, "NotRunning")
    /\ okStarts' = [okStarts EXCEPT ![u] = 0]
    /\ UNCHANGED <<tableVars, procVars, monVars, clients, connVars>>
    /\ UNCHANGED ioVars

\* StopServer returned "server is not running": go straight to StartServer
RestartNotRunning(c, u) ==
    /\ runningServers[u] = NoHandle
    /\ Enter(c, "restart", u, NoHandle, "rstStart")
    /\ okStarts' = [okStarts EXCEPT ![u] = 0]
    /\ UNCHANGED <<tableVars, procVars, monVars, clients, connVars>>
    /\ UNCHANGED ioVars

Restart(c, u) ==
    /\ pc[c] = "idle"
    /\ serverMux = 0
    /\ (RestartNotRunning(c, u) \/ StopLookup(c, u, "restart"))

\* time.Sleep(2 * time.Second)
RestartSleep(c) ==
    /\ pc[c] = "rstSleep"
    /\ pc' = [pc EXCEPT ![c] = "rstStart"]
    /\ UNCHANGED <<tableVars, procVars, monVars, clients, op, unit, target,
                   path, ret, connVars, okStarts>>
    /\ UNCHANGED ioVars

\* return StartServer(server)
RestartStart(c, lim) ==
    /\ pc[c] = "rstStart"
    /\ \E cmd \in StartupCommands, env \in LaunchEnvs :
           StartServer(c, unit[c], cmd, env, "restart", lim)

\* ------------------------------------------------------------- SendCommand
SendNotRunning(c, u) ==
    /\ runningServers[u] = NoHandle
    /\ Return(c, "send", u, "NotRunning")
    /\ UNCHANGED <<tableVars, procVars, monVars, clients, connVars, okStarts>>
    /\ UNCHANGED ioVars

SendLookup(c, u) ==
    /\ runningServers[u] # NoHandle
    /\ Enter(c, "send", u, runningServers[u], "sendW")
    /\ \E text \in Commands : arg' = [arg EXCEPT ![c] = text]
    /\ UNCHANGED <<tableVars, procVars, monVars, clients, connVars, okStarts>>
    /\ UNCHANGED <<logVars, subVars, miscVars>>

SendCommand(c, u) ==
    /\ pc[c] = "idle"
    /\ serverMux = 0
    /\ (SendNotRunning(c, u) \/ SendLookup(c, u))

\* SendWrite without the line end: sp.Stdin.Write(command)
SendWrite_NoNewline(c) ==
    LET h == target[c] IN
    /\ pc[c] = "sendW"
    /\ CanWrite(h)
    /\ PipeWrite(h, arg[c])
    /\ Return(c, "send", unit[c], IF proc[h] = "alive" THEN "ok" ELSE "WriteFailed")
    /\ arg' = [arg EXCEPT ![c] = <<>>]
    /\ UNCHANGED <<tableVars, nextH, hUnit, proc, exitCode, killSent, waiter,
                   monVars, clients, connVars, okStarts>>
    /\ UNCHANGED <<logVars, subVars, miscVars>>

\* sp.Stdin.Write(command + "\n"), outside the lock
SendWrite(c) ==
    LET h == target[c] IN
    /\ pc[c] = "sendW"
    /\ CanWrite(h)
    /\ PipeWrite(h, CommandBytes(arg[c]))
    /\ Return(c, "send", unit[c], IF proc[h] = "alive" THEN "ok" ELSE "WriteFailed")
    /\ arg' = [arg EXCEPT ![c] = <<>>]
    /\ UNCHANGED <<tableVars, nextH, hUnit, proc, exitCode, killSent, waiter,
                   monVars, clients, connVars, okStarts>>
    /\ UNCHANGED <<logVars, subVars, miscVars>>

\* ------------------------------------------------------------- the process
\* the process ends, by itself or by the signal once Kill() was called
ProcExit(h, codes) ==
    /\ proc[h] = "alive"
    /\ \E code \in codes \cup (IF killSent[h] /\ codes = ExitCodes
                              THEN {SignalCode} ELSE {}) :
           exitCode' = [exitCode EXCEPT ![h] = code]
    /\ proc' = [proc EXCEPT ![h] = "exited"]
    /\ stdinBuf' = [stdinBuf EXCEPT ![h] = <<>>]
    /\ okStarts' = [okStarts EXCEPT ![hUnit[h]] = 0]
    /\ UNCHANGED <<tableVars, nextH, hUnit, killSent, waiter, monVars, clients,
                   callVars, connVars>>
    /\ UNCHANGED ioVars

\* the process reads one buffered write from its stdin
ProcRead(h) ==
    /\ proc[h] = "alive"
    /\ stdinBuf[h] # <<>>
    /\ stdinBuf' = [stdinBuf EXCEPT ![h] = Tail(@)]
    /\ UNCHANGED <<tableVars, nextH, hUnit, proc, exitCode, killSent, waiter,
                   monVars, clients, callVars, connVars, okStarts>>
    /\ UNCHANGED ioVars

\* the goroutine of StopServer that is still in Cmd.Wait() after the timeout
WaiterReturn(h) ==
    /\ waiter[h] = "waiting"
    /\ proc[h] = "exited"
    /\ \A c \in Callers : ~(pc[c] = "stopSel" /\ target[c] = h)
    /\ waiter' = [waiter EXCEPT ![h] = IF monPc[h] = "done" THEN "none" ELSE "done"]
    /\ UNCHANGED <<tableVars, nextH, hUnit, proc, exitCode, killSent, stdinBuf,
                   monVars, clients, callVars, connVars, okStarts>>
    /\ UNCHANGED ioVars

\* ---------------------------------------------------------- monitorProcess
\* err := sp.Cmd.Wait(); exitCode from err. A second Cmd.Wait() of the same
\* Cmd (StopServer's goroutine) races for the exit status: the loser gets an
\* error that is no *exec.ExitError and computes exit code 0
MonCodes(h) == IF waiter[h] = "none" THEN {exitCode[h]} ELSE {exitCode[h], 0}

MonWait(h) ==
    /\ monPc[h] = "wait"
    /\ proc[h] = "exited"
    /\ \E code \in MonCodes(h) : monCode' = [monCode EXCEPT ![h] = code]
    /\ monPc' = [monPc EXCEPT ![h] = "lock"]
    /\ UNCHANGED <<tableVars, procVars, clients, callVars, connVars, okStarts>>
    /\ UNCHANGED ioVars

\* MonDelete emptying the table: runningServers = make(map[uint]*ServerProcess)
MonDelete_ClearsTable(h) ==
    /\ monPc[h] = "lock"
    /\ serverMux = 0
    /\ runningServers' = [u \in Units |-> NoHandle]
    /\ monPc' = [monPc EXCEPT ![h] = "status"]
    /\ UNCHANGED <<serverMux, status, startedAt, procVars, monCode, clients,
                   callVars, connVars, okStarts>>
    /\ UNCHANGED ioVars

\* MonDelete without the delete: the cleanup starts with the status
MonDelete_KeepsEntry(h) ==
    /\ monPc[h] = "lock"
    /\ serverMux = 0
    /\ monPc' = [monPc EXCEPT ![h] = "status"]
    /\ UNCHANGED <<tableVars, procVars, monCode, clients, callVars, connVars,
                   okStarts>>
    /\ UNCHANGED ioVars

\* serverMux.Lock(); delete(runningServers, sp.Server.ID); serverMux.Unlock()
MonDelete(h) ==
    /\ monPc[h] = "lock"
    /\ serverMux = 0
    /\ runningServers' = [runningServers EXCEPT ![hUnit[h]] = NoHandle]
    /\ monPc' = [monPc EXCEPT ![h] = "status"]
    /\ UNCHANGED <<serverMux, status, startedAt, procVars, monCode, clients,
                   callVars, connVars, okStarts>>
    /\ UNCHANGED ioVars

\* sp.Server.SetStatus("offline")
MonStatus(h) ==
    /\ monPc[h] = "status"
    /\ status' = [status EXCEPT ![hUnit[h]] = "offline"]
    /\ startedAt' = [startedAt EXCEPT ![hUnit[h]] = FALSE]
    /\ monPc' = [monPc EXCEPT ![h] = "close"]
    /\ UNCHANGED <<runningServers, serverMux, procVars, monCode, clients,
                   callVars, connVars, okStarts>>
    /\ UNCHANGED ioVars

\* the final line naming exitCode to every client, Close, sp.Clients = {},
\* under sp.ClientMux; at a client whose writes do not return the loop stays
\* in WriteMessage with the lock held
MonClose(h) ==
    LET st == SendAll(BeforeStall(clients[h]), ExitMsg(monCode[h]),
                      <<connLast, connClosed>>) IN
    /\ monPc[h] = "close"
    /\ ~ClientMuxHeld(h)
    /\ connLast' = st[1]
    /\ connClosed' = st[2]
    /\ IF FirstStalled(clients[h], 1) = 0
       THEN /\ clients' = [clients EXCEPT ![h] = <<>>]
            /\ monPc' = [monPc EXCEPT ![h] = "done"]
            \* nothing reads these fields of a handle once its monitor has
            \* returned
            /\ monCode' = [monCode EXCEPT ![h] = 0]
            /\ exitCode' = [exitCode EXCEPT ![h] = 0]
            /\ killSent' = [killSent EXCEPT ![h] = FALSE]
            /\ waiter' = [waiter EXCEPT ![h] = IF @ = "done" THEN "none" ELSE @]
       ELSE /\ monPc' = [monPc EXCEPT ![h] = "blocked"]
            /\ UNCHANGED <<clients, monCode, exitCode, killSent, waiter>>
    /\ UNCHANGED <<tableVars, nextH, hUnit, proc, stdinBuf, callVars, connPc,
                   connH, okStarts>>
    /\ UNCHANGED ioVars

\* ------------------------------------------------------ AddConsoleListener
\* the lookup under serverMux; with no entry the connection gets the error
\* line and is closed
ConnLookup(k, u) ==
    /\ connPc[k] = "new"
    /\ serverMux = 0
    /\ IF runningServers[u] = NoHandle
       THEN /\ connLast' = [connLast EXCEPT ![k] = NotRunningMsg]
            /\ connClosed' = [connClosed EXCEPT ![k] = TRUE]
            /\ connPc' = [connPc EXCEPT ![k] = "refused"]
            /\ UNCHANGED connH
       ELSE /\ connH' = [connH EXCEPT ![k] = runningServers[u]]
            /\ connPc' = [connPc EXCEPT ![k] = "adding"]
            /\ UNCHANGED <<connLast, connClosed>>
    /\ UNCHANGED <<tableVars, procVars, monVars, clients, callVars, okStarts>>
    /\ UNCHANGED ioVars

\* sp.Clients = append(sp.Clients, conn) under sp.ClientMux
ConnAdd(k) ==
    /\ connPc[k] = "adding"
    /\ ~ClientMuxHeld(connH[k])
    /\ clients' = [clients EXCEPT ![connH[k]] = Append(@, k)]
    /\ connPc' = [connPc EXCEPT ![k] = "logLock"]
    /\ early' = [early EXCEPT ![k] = IF hist[connH[k]] = <<>> THEN "added" ELSE "no"]
    /\ UNCHANGED <<tableVars, procVars, monVars, callVars, connH, connLast,
                   connClosed, okStarts>>
    /\ UNCHANGED <<logVars, recv, peerGone, detH, connIdx, arg, miscVars>>

\* conn.WriteMessage succeeds while the connection is open and its peer there
WriteOk(k) == ~connClosed[k] /\ ~peerGone[k]

\* sp.LogMux is held by an AddConsoleListener replaying sp.Logs
LogMuxHeld(h) == \E k \in Conns : connPc[k] = "backlog" /\ connH[k] = h

\* sp.LogMux.Lock(); for _, logLine := range sp.Logs { conn.WriteMessage };
\* sp.LogMux.Unlock(): one step per line; the first step takes the lock, the
\* step of the last line (or the first, when sp.Logs is empty) unlocks and
\* AddConsoleListener returns. Write errors are dropped. When the writes to
\* the connection do not return, the loop stays in its first WriteMessage
\* with the lock held.
ConnBacklog(k) ==
    LET h == connH[k] IN
    /\ connPc[k] \in {"logLock", "backlog"}
    /\ connPc[k] = "logLock" => ~LogMuxHeld(h)
    /\ IF stalled[k] /\ connIdx[k] < Len(logs[h])
       THEN /\ connPc[k] = "logLock"
            /\ connPc' = [connPc EXCEPT ![k] = "backlog"]
            /\ UNCHANGED <<recv, connLast, connIdx, early>>
       ELSE /\ IF connIdx[k] < Len(logs[h])
               THEN LET line == logs[h][connIdx[k] + 1] IN
                    /\ recv' = [recv EXCEPT ![k] =
                                    IF WriteOk(k) THEN Append(@, <<"backlog", line>>)
                                    ELSE @]
                    /\ connLast' = [connLast EXCEPT ![k] =
                                        IF WriteOk(k) THEN line ELSE @]
               ELSE UNCHANGED <<recv, connLast>>
            /\ IF connIdx[k] + 1 < Len(logs[h])
               THEN /\ connPc' = [connPc EXCEPT ![k] = "backlog"]
                    /\ connIdx' = [connIdx EXCEPT ![k] = @ + 1]
                    /\ UNCHANGED early
               ELSE /\ connPc' = [connPc EXCEPT ![k] = "attached"]
                    /\ connIdx' = [connIdx EXCEPT ![k] = 0]
                    /\ early' = [early EXCEPT ![k] =
                                     IF @ = "added" /\ hist[h] = <<>>
                                     THEN "returned" ELSE @]
    /\ UNCHANGED <<tableVars, procVars, monVars, clients, callVars, connH,
                   connClosed, okStarts, logVars, peerGone, detH, arg, miscVars>>

\* the peer of the connection goes away: from now on conn.WriteMessage fails
\* and conn.ReadMessage in the handler returns an error
PeerDrop(k) ==
    /\ connPc[k] \in {"adding", "logLock", "backlog", "attached"}
    /\ ~peerGone[k]
    /\ peerGone' = [peerGone EXCEPT ![k] = TRUE]
    /\ UNCHANGED <<tableVars, procVars, monVars, clients, callVars, connVars,
                   okStarts, logVars, recv, detH, connIdx, early,
                   arg, miscVars>>

\* the peer of the connection stops reading and the buffers on the way to it
\* are full: from now on conn.WriteMessage on it does not return (no write
\* deadline is set on the connection)
PeerStall(k) ==
    /\ connPc[k] \in {"adding", "logLock", "attached"}
    /\ ~peerGone[k] /\ ~connClosed[k] /\ ~stalled[k]
    /\ stalled' = [stalled EXCEPT ![k] = TRUE]
    /\ UNCHANGED <<tableVars, procVars, monVars, clients, callVars, connVars,
                   okStarts, logVars, subVars, arg, stats, rawLine, cleanLine>>

\* --------------------------------------------------- RemoveConsoleListener
\* conn.ReadMessage failed in ConsoleWebSocket; the deferred
\* RemoveConsoleListener looks the unit up under serverMux and returns when
\* there is no entry
ConnDetachLookup(k, u) ==
    /\ connPc[k] \in {"attached", "refused"}
    /\ peerGone[k] \/ connClosed[k]
    /\ serverMux = 0
    /\ IF runningServers[u] = NoHandle
       THEN /\ connPc' = [connPc EXCEPT ![k] = "detached"]
            /\ UNCHANGED detH
       ELSE /\ connPc' = [connPc EXCEPT ![k] = "removing"]
            /\ detH' = [detH EXCEPT ![k] = runningServers[u]]
    /\ UNCHANGED <<tableVars, procVars, monVars, clients, callVars, connH,
                   connLast, connClosed, okStarts, logVars, recv, peerGone,
                   connIdx, early, arg, miscVars>>

\* index of the first occurrence of k in cs, 0 when there is none
RECURSIVE IndexFrom(_, _, _)
IndexFrom(cs, k, i) ==
    IF i > Len(cs) THEN 0
    ELSE IF cs[i] = k THEN i ELSE IndexFrom(cs, k, i + 1)

\* append(cs[:i], cs[i+1:]...) for the 1-based index i
RemoveAt(cs, i) == SubSeq(cs, 1, i - 1) \o SubSeq(cs, i + 1, Len(cs))

\* RemoveClient with the index of a client that is not there taken as the
\* last one
RemoveClient_DropsLast(cs, k) ==
    LET i == IndexFrom(cs, k, 1) IN RemoveAt(cs, IF i = 0 THEN Len(cs) ELSE i)

\* the loop of RemoveConsoleListener: the first client equal to conn is cut out
RemoveClient(cs, k) ==
    LET i == IndexFrom(cs, k, 1) IN IF i = 0 THEN cs ELSE RemoveAt(cs, i)

\* the removal under sp.ClientMux, on the handle found by the lookup
ConnRemove(k) ==
    /\ connPc[k] = "removing"
    /\ ~ClientMuxHeld(detH[k])
    /\ clients' = [clients EXCEPT ![detH[k]] = RemoveClient(@, k)]
    /\ detH' = [detH EXCEPT ![k] = NoHandle]
    /\ connPc' = [connPc EXCEPT ![k] = "detached"]
    /\ UNCHANGED <<tableVars, procVars, monVars, callVars, connH, connLast,
                   connClosed, okStarts, logVars, recv, peerGone, connIdx,
                   early, arg, miscVars>>

\* the deferred conn.Close() of ConsoleWebSocket
ConnClose(k) ==
    /\ connPc[k] = "detached"
    /\ connClosed' = [connClosed EXCEPT ![k] = TRUE]
    /\ connPc' = [connPc EXCEPT ![k] = "closed"]
    \* the handler has returned: what it received is no longer followed
    /\ recv' = [recv EXCEPT ![k] = <<>>]
    /\ early' = [early EXCEPT ![k] = "no"]
    /\ UNCHANGED <<tableVars, procVars, monVars, clients, callVars, connH,
                   connLast, okStarts, logVars, peerGone, detH, connIdx,
                   arg, miscVars>>

\* -------------------------------------------------------------- readOutput
\* the n-th line of stream s, after stripAnsiCodes
Line(s, n) == <<s, n>>

\* KeepLast cutting at the wrong end: sp.Logs[:cap]
KeepLast_Oldest(ls, cap) ==
    IF Len(ls) > cap THEN SubSeq(ls, 1, cap) ELSE ls

\* KeepLast cutting one line too many: sp.Logs[len(sp.Logs)-cap+1:]
KeepLast_OneLess(ls, cap) ==
    IF Len(ls) > cap THEN SubSeq(ls, Len(ls) - cap + 2, Len(ls)) ELSE ls

\* sp.Logs = sp.Logs[len(sp.Logs)-cap:] when len(sp.Logs) > cap
KeepLast(ls, cap) ==
    IF Len(ls) > cap THEN SubSeq(ls, Len(ls) - cap + 1, Len(ls)) ELSE ls

\* scanner.Scan() gives the next line; under sp.LogMux it is appended to
\* sp.Logs and the oldest lines are cut off
ReadAppend(h, s, lines) ==
    /\ proc[h] # "none"
    /\ rdPc[h][s] = "scan"
    /\ rdN[h][s] < lines
    /\ ~LogMuxHeld(h)
    /\ rdN' = [rdN EXCEPT ![h][s] = @ + 1]
    /\ logs' = [logs EXCEPT ![h] = KeepLast(Append(@, Line(s, rdN[h][s] + 1)), LogCap)]
    /\ hist' = [hist EXCEPT ![h] = Append(@, Line(s, rdN[h][s] + 1))]
    /\ rdPc' = [rdPc EXCEPT ![h][s] = "bcast"]
    /\ UNCHANGED <<tableVars, procVars, monVars, clients, callVars, connVars,
                   okStarts, snap, subVars, arg, miscVars>>

\* disconnectedClients: the indices of the clients whose write failed
RECURSIVE DisconnectedFrom(_, _)
DisconnectedFrom(cs, i) ==
    IF i > Len(cs) THEN <<>>
    ELSE (IF WriteOk(cs[i]) THEN <<>> ELSE <<i>>) \o DisconnectedFrom(cs, i + 1)

\* the removal loop, from the last index recorded to the first
RECURSIVE RemoveIdxs(_, _)
RemoveIdxs(cs, idxs) ==
    IF idxs = <<>> THEN cs
    ELSE RemoveIdxs(RemoveAt(cs, idxs[Len(idxs)]), SubSeq(idxs, 1, Len(idxs) - 1))

\* the members of sp.Clients
Members(cs) == {cs[i] : i \in 1..Len(cs)}

\* ReadBroadcast with the loop left at the first write that fails
ReadBroadcast_StopsAtError(h, s) ==
    LET line == Line(s, rdN[h][s])
        bad == DisconnectedFrom(clients[h], 1)
        upto == IF bad = <<>> THEN Len(clients[h]) ELSE bad[1]
        got == {k \in Members(SubSeq(clients[h], 1, upto)) : WriteOk(k)}
    IN
    /\ rdPc[h][s] = "bcast"
    /\ recv' = [k \in Conns |->
                    IF k \in got THEN Append(recv[k], <<"live", line>>) ELSE recv[k]]
    /\ connLast' = [k \in Conns |-> IF k \in got THEN line ELSE connLast[k]]
    /\ clients' = [clients EXCEPT ![h] =
                       IF bad = <<>> THEN @ ELSE RemoveAt(@, bad[1])]
    /\ rdPc' = [rdPc EXCEPT ![h][s] = "scan"]
    /\ UNCHANGED <<tableVars, procVars, monVars, callVars, connPc, connH,
                   connClosed, okStarts, logs, hist, rdN, snap, peerGone, detH,
                   connIdx, early, arg, miscVars>>

\* ReadBroadcast with the write repeated when it succeeded
ReadBroadcast_WritesTwice(h, s) ==
    LET line == Line(s, rdN[h][s])
        got == {k \in Members(clients[h]) : WriteOk(k)}
    IN
    /\ rdPc[h][s] = "bcast"
    /\ recv' = [k \in Conns |->
                    IF k \in got THEN recv[k] \o << <<"live", line>>, <<"live", line>> >>
                    ELSE recv[k]]
    /\ connLast' = [k \in Conns |-> IF k \in got THEN line ELSE connLast[k]]
    /\ clients' = [clients EXCEPT ![h] = RemoveIdxs(@, DisconnectedFrom(@, 1))]
    /\ rdPc' = [rdPc EXCEPT ![h][s] = "scan"]
    /\ UNCHANGED <<tableVars, procVars, monVars, callVars, connPc, connH,
                   connClosed, okStarts, logs, hist, rdN, snap, peerGone, detH,
                   connIdx, early, arg, miscVars>>

\* ReadBroadcast with a loop that is left after the first client
ReadBroadcast_FirstOnly(h, s) ==
    LET line == Line(s, rdN[h][s])
        got == {k \in Members(clients[h]) : clients[h][1] = k /\ WriteOk(k)}
    IN
    /\ rdPc[h][s] = "bcast"
    /\ recv' = [k \in Conns |->
                    IF k \in got THEN Append(recv[k], <<"live", line>>) ELSE recv[k]]
    /\ connLast' = [k \in Conns |-> IF k \in got THEN line ELSE connLast[k]]
    /\ clients' = [clients EXCEPT ![h] = RemoveIdxs(@, DisconnectedFrom(@, 1))]
    /\ rdPc' = [rdPc EXCEPT ![h][s] = "scan"]
    /\ UNCHANGED <<tableVars, procVars, monVars, callVars, connPc, connH,
                   connClosed, okStarts, logs, hist, rdN, snap, peerGone, detH,
                   connIdx, early, arg, miscVars>>

\* under sp.ClientMux the line is written to every client, and the clients
\* whose write failed are removed; at a client whose writes do not return
\* the loop stays in WriteMessage with the lock held
ReadBroadcast(h, s) ==
    LET line == Line(s, rdN[h][s])
        got == {k \in Members(BeforeStall(clients[h])) : WriteOk(k)}
    IN
    /\ rdPc[h][s] = "bcast"
    /\ ~ClientMuxHeld(h)
    /\ recv' = [k \in Conns |->
                    IF k \in got THEN Append(recv[k], <<"live", line>>) ELSE recv[k]]
    /\ connLast' = [k \in Conns |-> IF k \in got THEN line ELSE connLast[k]]
    /\ IF FirstStalled(clients[h], 1) = 0
       THEN /\ clients' = [clients EXCEPT ![h] = RemoveIdxs(@, DisconnectedFrom(@, 1))]
            /\ rdPc' = [rdPc EXCEPT ![h][s] = "scan"]
       ELSE /\ rdPc' = [rdPc EXCEPT ![h][s] = "blocked"]
            /\ UNCHANGED clients
    /\ UNCHANGED <<tableVars, procVars, monVars, callVars, connPc, connH,
                   connClosed, okStarts, logs, hist, rdN, snap, peerGone, detH,
                   connIdx, early, arg, miscVars>>

\* scanner.Scan() returns false and readOutput returns: at the end of the
\* stream, once the process has ended and its lines are read, or at any time
\* on a read error, which is logged and nothing more
ReadEnd(h, s) ==
    /\ proc[h] # "none"
    /\ rdPc[h][s] = "scan"
    /\ rdPc' = [rdPc EXCEPT ![h][s] = "done"]
    /\ UNCHANGED <<tableVars, procVars, monVars, clients, callVars, connVars,
                   okStarts, logs, hist, rdN, snap, subVars, arg, miscVars>>

\* ----------------------------------------------------------------- GetLogs
\* the lookup under serverMux; with no entry the empty slice is returned
GetLogs(c, u) ==
    /\ pc[c] = "idle"
    /\ serverMux = 0
    /\ IF runningServers[u] = NoHandle
       THEN /\ Return(c, "logs", u, "ok")
            /\ snap' = <<>>
       ELSE /\ Enter(c, "logs", u, runningServers[u], "logCopy")
            /\ UNCHANGED snap
    /\ UNCHANGED <<tableVars, procVars, monVars, clients, connVars, okStarts,
                   logs, hist, rdPc, rdN, subVars, arg, miscVars>>

\* GetLogsCopy with a destination one element short: the newest line is
\* not copied
GetLogsCopy_Short(c) ==
    /\ pc[c] = "logCopy"
    /\ ~LogMuxHeld(target[c])
    /\ snap' = SubSeq(logs[target[c]], 1, Len(logs[target[c]]) - 1)
    /\ Return(c, "logs", unit[c], "ok")
    /\ UNCHANGED <<tableVars, procVars, monVars, clients, connVars, okStarts,
                   logs, hist, rdPc, rdN, subVars, arg, miscVars>>

\* GetLogsCopy on a buffer kept per unit, not per ServerProcess: the lines of
\* every run of the unit
GetLogsCopy_UnitBuffer(c) ==
    /\ pc[c] = "logCopy"
    /\ ~LogMuxHeld(target[c])
    /\ snap' = logs[1] \o (IF target[c] = 1 THEN <<>> ELSE logs[target[c]])
    /\ Return(c, "logs", unit[c], "ok")
    /\ UNCHANGED <<tableVars, procVars, monVars, clients, connVars, okStarts,
                   logs, hist, rdPc, rdN, subVars, arg, miscVars>>

\* under sp.LogMux: logs := make([]string, len(sp.Logs)); copy(logs, sp.Logs)
GetLogsCopy(c) ==
    /\ pc[c] = "logCopy"
    /\ ~LogMuxHeld(target[c])
    /\ snap' = logs[target[c]]
    /\ Return(c, "logs", unit[c], "ok")
    /\ UNCHANGED <<tableVars, procVars, monVars, clients, connVars, okStarts,
                   logs, hist, rdPc, rdN, subVars, arg, miscVars>>

\* ------------------------------------------------------------ stripAnsiCodes
\* string(b) for a byte b: the UTF-8 form of the code point b, one byte below
\* 0x80 and two bytes from 0x80 on
ByteToString(b) ==
    IF b < 128 THEN <<b>> ELSE <<192 + (b \div 64), 128 + (b % 64)>>

RECURSIVE StripFrom(_, _, _, _)
\* the loop `for i := 0; i < len(text); i++` from the 1-based index i on:
\* ESC followed by '[' sets inEscape and skips the '['; in a sequence every
\* byte is skipped and 'm' ends it; of any other byte string(text[i]) is
\* appended to result
StripFrom(text, i, inEscape, result) ==
    IF i > Len(text) THEN result
    ELSE IF text[i] = ESC /\ i + 1 <= Len(text) /\ text[i + 1] = LBracket
         THEN StripFrom(text, i + 2, TRUE, result)
    ELSE IF inEscape
         THEN StripFrom(text, i + 1, text[i] # LetterM, result)
    ELSE StripFrom(text, i + 1, FALSE, result \o ByteToString(text[i]))

stripAnsiCodes(text) == StripFrom(text, 1, FALSE, <<>>)

\* line = stripAnsiCodes(line)
Strip ==
    /\ cleanLine = <<>>
    /\ cleanLine' = <<stripAnsiCodes(rawLine)>>
    /\ UNCHANGED <<tableVars, procVars, monVars, clients, callVars, connVars,
                   okStarts, logVars, subVars, arg, stats, rawLine, stalled>>

\* ---------------------------------------------------------- GetServerStats
\* sp.Cmd.Process.Pid: the operating system gives every process an id that is
\* not 0
Pid(h) == 100 + h

\* what getProcessMemory(pid) returns: <<memKB, err>>, the VmRSS of
\* /proc/<pid>/status in KB and nil, or 0 and an error (no such file, no VmRSS
\* line, a number that does not parse); it fails once the process is gone
MemKBs == {2048, 4096}
ProcessMemory(h) ==
    {<<0, "err">>} \cup (IF proc[h] = "alive" THEN {<<kb, "nil">> : kb \in MemKBs} ELSE {})

\* float64(memoryKB) / 1024.0, for the whole numbers of MB in MemKBs
MemoryMB(kb) == kb \div 1024

\* the lookup under serverMux; with no entry the zero statistics are returned
GetStats(c, u) ==
    /\ pc[c] = "idle"
    /\ serverMux = 0
    /\ IF runningServers[u] = NoHandle
       THEN /\ Return(c, "stats", u, "ok")
            /\ stats' = Stats(FALSE, 0, 0)
       ELSE /\ Enter(c, "stats", u, runningServers[u], "statMem")
            /\ UNCHANGED stats
    /\ UNCHANGED <<tableVars, procVars, monVars, clients, connVars, okStarts,
                   logVars, subVars, arg, rawLine, cleanLine, stalled>>

\* GetStatsMem with the error of getProcessMemory handed to the caller
GetStatsMem_ReturnsError(c) ==
    LET h == target[c] IN
    /\ pc[c] = "statMem"
    /\ \E m \in ProcessMemory(h) :
           IF m[2] # "nil"
           THEN /\ Return(c, "stats", unit[c], "StatsFailed")
                /\ UNCHANGED stats
           ELSE /\ Return(c, "stats", unit[c], "ok")
                /\ stats' = Stats(TRUE, Pid(h), MemoryMB(m[1]))
    /\ UNCHANGED <<tableVars, procVars, monVars, clients, connVars, okStarts,
                   logVars, subVars, arg, rawLine, cleanLine, stalled>>

\* pid := sp.Cmd.Process.Pid; getProcessMemory(pid); the statistics with
\* IsRunning true, and with memory 0 when getProcessMemory failed
GetStatsMem(c) ==
    LET h == target[c] IN
    /\ pc[c] = "statMem"
    /\ \E m \in ProcessMemory(h) :
           stats' = Stats(TRUE, Pid(h), IF m[2] # "nil" THEN 0 ELSE MemoryMB(m[1]))
    /\ Return(c, "stats", unit[c], "ok")
    /\ UNCHANGED <<tableVars, procVars, monVars, clients, connVars, okStarts,
                   logVars, subVars, arg, rawLine, cleanLine, stalled>>

\* ------------------------------------------------------- specifications
\* the steps of StopServer after its lookup
StopSteps(c) ==
    \/ StopWrite(c)
    \/ StopGraceful(c)
    \/ StopTimeout(c)
    \/ StopCleanup(c)

\* the goroutines of a handle, once its process has ended
HandleSteps(h) ==
    \/ WaiterReturn(h)
    \/ MonWait(h)
    \/ MonDelete(h)
    \/ MonStatus(h)
    \/ MonClose(h)

\* the steps of monitorProcess for handle h
MonitorSteps(h) ==
    \/ MonWait(h)
    \/ MonDelete(h)
    \/ MonStatus(h)
    \/ MonClose(h)

\* Spec: one unit, exit codes not told apart, no listener, nothing written
\* to stdin but the two lines of StopServer
LifeLim == [handles |-> MaxHandles, live |-> MaxLive]

Next ==
    \/ \E c \in Callers : Start(c, 1, LifeLim)
    \/ \E c \in Callers : Stop(c, 1)
    \/ \E c \in Callers : Restart(c, 1)
    \/ \E c \in Callers : StopSteps(c)
    \/ \E c \in Callers : RestartSleep(c)
    \/ \E c \in Callers : RestartStart(c, LifeLim)
    \/ \E h \in Handles : ProcExit(h, {0})
    \/ \E h \in Handles : HandleSteps(h)

Spec == Init /\ [][Next]_vars

\* SpecConn: one unit, one caller, a console listener, distinct exit codes
ConnLim == [handles |-> ConnHandles, live |-> ConnHandles]

NextConn ==
    \/ \E c \in 1..ConnCallers : Start(c, 1, ConnLim)
    \/ \E c \in 1..ConnCallers : Stop(c, 1)
    \/ \E c \in 1..ConnCallers : Restart(c, 1)
    \/ \E c \in 1..ConnCallers : StopSteps(c)
    \/ \E c \in 1..ConnCallers : RestartSleep(c)
    \/ \E c \in 1..ConnCallers : RestartStart(c, ConnLim)
    \/ \E h \in Handles : ProcExit(h, ExitCodes)
    \/ \E h \in Handles : HandleSteps(h)
    \/ \E k \in 1..NumConns : ConnLookup(k, 1)
    \/ \E k \in 1..NumConns : ConnAdd(k)
    \/ \E k \in 1..NumConns : ConnBacklog(k)

SpecConn == Init /\ [][NextConn]_vars

\* FairSpec: two units, commands written to stdin, and the scheduling the Go
\* runtime gives: a goroutine that can take a step takes it, a goroutine
\* waiting for serverMux gets it if it is freed again and again. Nothing
\* makes a server process exit or read its stdin, and nothing makes a client
\* call a service.
FairLim == [handles |-> FairHandles, live |-> FairHandles]

NextFair ==
    \/ \E c \in Callers, u \in Units : Start(c, u, FairLim)
    \/ \E c \in Callers, u \in Units : Stop(c, u)
    \/ \E c \in Callers, u \in Units : SendCommand(c, u)
    \/ \E c \in Callers : StopSteps(c)
    \/ \E c \in Callers : SendWrite(c)
    \/ \E h \in Handles : ProcExit(h, {0})
    \/ \E h \in Handles : ProcRead(h)
    \/ \E h \in Handles : HandleSteps(h)

Fairness ==
    /\ \A c \in Callers : WF_vars(StopSteps(c))
    /\ \A c \in Callers : WF_vars(SendWrite(c))
    /\ \A h \in Handles : WF_vars(WaiterReturn(h))
    /\ \A h \in Handles : WF_vars(MonWait(h))
    /\ \A h \in Handles : SF_vars(MonDelete(h))
    /\ \A h \in Handles : WF_vars(MonStatus(h))
    /\ \A h \in Handles : WF_vars(MonClose(h))

FairSpec == Init /\ [][NextFair]_vars /\ Fairness

\* SpecSub: one unit launched once (starts that fail are left to Spec), its
\* two output readers, and websocket connections that attach, lose their peer
\* and detach
SubLim == [handles |-> 1, live |-> 1]

\* the steps of one websocket handler
ConnSteps(k) ==
    \/ ConnLookup(k, 1)
    \/ ConnAdd(k)
    \/ ConnBacklog(k)
    \/ PeerDrop(k)
    \/ ConnDetachLookup(k, 1)
    \/ ConnRemove(k)
    \/ ConnClose(k)

NextSub ==
    \/ \E c \in 1..ConnCallers : Start(c, 1, SubLim) /\ ret'[3] = "ok"
    \/ \E h \in Handles : ProcExit(h, {0})
    \/ \E h \in Handles : MonitorSteps(h)
    \/ \E h \in Handles, s \in Streams : ReadAppend(h, s, SubLines)
    \/ \E h \in Handles, s \in Streams : ReadBroadcast(h, s)
    \/ \E k \in Conns : ConnSteps(k)

SpecSub == Init /\ [][NextSub]_vars

\* SpecLog: one unit launched once, its two output readers appending more
\* lines than sp.Logs keeps, a connection replaying them, and GetLogs
NextLog ==
    \/ \E c \in 1..ConnCallers : Start(c, 1, SubLim) /\ ret'[3] = "ok"
    \/ \E c \in 1..ConnCallers : GetLogs(c, 1)
    \/ \E c \in 1..ConnCallers : GetLogsCopy(c)
    \/ \E h \in Handles : ProcExit(h, {0})
    \/ \E h \in Handles : MonitorSteps(h)
    \/ \E h \in Handles, s \in Streams : ReadAppend(h, s, LogLines)
    \/ \E h \in Handles, s \in Streams : ReadBroadcast(h, s)
    \/ \E k \in 1..NumConns : ConnLookup(k, 1)
    \/ \E k \in 1..NumConns : ConnAdd(k)
    \/ \E k \in 1..NumConns : ConnBacklog(k)

SpecLog == Init /\ [][NextLog]_vars

\* SpecRead: one unit started, stopped and started again by one caller, the
\* reader of its stdout, and a second caller with the query GetLogs
ReadLim == [handles |-> ReadHandles, live |-> ReadHandles]

NextRead ==
    \/ \E c \in 1..ConnCallers : Start(c, 1, ReadLim) /\ ret'[3] = "ok"
    \/ \E c \in 1..ConnCallers : Stop(c, 1)
    \/ \E c \in 1..ConnCallers : StopSteps(c)
    \/ \E c \in Callers \ (1..ConnCallers) : GetLogs(c, 1)
    \/ \E c \in Callers \ (1..ConnCallers) : GetLogsCopy(c)
    \/ \E h \in Handles : ProcExit(h, {0})
    \/ \E h \in Handles : HandleSteps(h)
    \/ \E h \in Handles : ReadAppend(h, "out", ReadLines)
    \/ \E h \in Handles : ReadBroadcast(h, "out")

SpecRead == Init /\ [][NextRead]_vars

\* SpecStats: one unit started and stopped by one caller, and a second
\* caller with the query GetServerStats
NextStats ==
    \/ \E c \in 1..ConnCallers : Start(c, 1, ReadLim)
    \/ \E c \in 1..ConnCallers : Stop(c, 1)
    \/ \E c \in 1..ConnCallers : StopSteps(c)
    \/ \E c \in Callers \ (1..ConnCallers) : GetStats(c, 1)
    \/ \E c \in Callers \ (1..ConnCallers) : GetStatsMem(c)
    \/ \E h \in Handles : ProcExit(h, {0})
    \/ \E h \in Handles : HandleSteps(h)

SpecStats == Init /\ [][NextStats]_vars

\* SpecStrip: stripAnsiCodes applied to every line of at most TextLen bytes
InitStrip ==
    /\ InitSupervisor
    /\ rawLine \in Texts
    /\ cleanLine = <<>>

NextStrip == Strip

SpecStrip == InitStrip /\ [][NextStrip]_vars

\* SpecSlow: one unit launched once, the reader of its stdout, websocket
\* connections that attach and detach, and a peer that stops reading; every
\* goroutine that can take its next step takes it
NextSlow ==
    \/ \E c \in 1..ConnCallers : Start(c, 1, SubLim) /\ ret'[3] = "ok"
    \/ \E h \in Handles : ProcExit(h, {0})
    \/ \E h \in Handles : MonitorSteps(h)
    \/ \E h \in Handles : ReadAppend(h, "out", SlowLines)
    \/ \E h \in Handles : ReadBroadcast(h, "out")
    \/ \E k \in Conns : ConnSteps(k)
    \/ \E k \in 1..NumConns : PeerStall(k)

SlowFairness ==
    /\ \A h \in Handles : WF_vars(ReadBroadcast(h, "out"))
    /\ \A h \in Handles : WF_vars(MonitorSteps(h))
    /\ \A k \in Conns : WF_vars(ConnAdd(k))
    /\ \A k \in Conns : WF_vars(ConnBacklog(k))
    /\ \A k \in Conns : WF_vars(ConnRemove(k))

SpecSlow == Init /\ [][NextSlow]_vars /\ SlowFairness

\* SpecExit: one unit launched once and stopped by one caller, its two
\* output readers, a websocket connection whose peer can go away or stop
\* reading; every goroutine that can take its next step takes it
NextExit ==
    \/ \E c \in 1..ConnCallers : Start(c, 1, SubLim) /\ ret'[3] = "ok"
    \/ \E c \in 1..ConnCallers : Stop(c, 1)
    \/ \E c \in 1..ConnCallers : StopSteps(c)
    \/ \E h \in Handles : ProcExit(h, {0})
    \/ \E h \in Handles : HandleSteps(h)
    \/ \E h \in Handles : ReadAppend(h, "out", ReadLines)
    \/ \E h \in Handles : ReadBroadcast(h, "out")
    \/ \E h \in Handles, s \in Streams : ReadEnd(h, s)
    \/ \E k \in 1..NumConns : ConnSteps(k)
    \/ \E k \in 1..NumConns : PeerStall(k)

ExitFairness ==
    /\ \A c \in 1..ConnCallers : WF_vars(StopSteps(c))
    /\ \A h \in Handles : WF_vars(HandleSteps(h))
    /\ \A h \in Handles : WF_vars(ReadBroadcast(h, "out"))
    /\ \A h \in Handles, s \in Streams : WF_vars(proc[h] = "exited" /\ ReadEnd(h, s))
    /\ \A k \in 1..NumConns : WF_vars(ConnAdd(k))
    /\ \A k \in 1..NumConns : WF_vars(ConnBacklog(k))
    /\ \A k \in 1..NumConns : WF_vars(ConnRemove(k))

SpecExit == Init /\ [][NextExit]_vars /\ ExitFairness

\* SpecLock: one unit launched once, a caller that stops it, sends it commands
\* and reads its log, the reader of its stdout, the exit monitor and a websocket
\* connection that attaches and detaches. Sends to the connection complete
\* (no peer stops reading) and every process exits in the end; a goroutine
\* that can take its next step takes it
NextLock ==
    \/ \E c \in 1..ConnCallers : Start(c, 1, SubLim) /\ ret'[3] = "ok"
    \/ \E c \in 1..ConnCallers : Stop(c, 1)
    \/ \E c \in 1..ConnCallers : StopSteps(c)
    \/ \E c \in 1..ConnCallers : SendCommand(c, 1)
    \/ \E c \in 1..ConnCallers : SendWrite(c)
    \/ \E c \in 1..ConnCallers : GetLogs(c, 1)
    \/ \E c \in 1..ConnCallers : GetLogsCopy(c)
    \/ \E h \in Handles : ProcExit(h, {0})
    \/ \E h \in Handles : HandleSteps(h)
    \/ \E h \in Handles : ReadAppend(h, "out", SlowLines)
    \/ \E h \in Handles : ReadBroadcast(h, "out")
    \/ \E k \in 1..NumConns : ConnSteps(k)

LockFairness ==
    /\ \A c \in Callers : WF_vars(StopSteps(c))
    /\ \A c \in Callers : WF_vars(SendWrite(c))
    /\ \A c \in Callers : WF_vars(GetLogsCopy(c))
    /\ \A h \in Handles : WF_vars(ProcExit(h, {0}))
    /\ \A h \in Handles : WF_vars(WaiterReturn(h))
    /\ \A h \in Handles : WF_vars(MonWait(h))
    /\ \A h \in Handles : WF_vars(MonDelete(h))
    /\ \A h \in Handles : WF_vars(MonStatus(h))
    /\ \A h \in Handles : WF_vars(MonClose(h))
    /\ \A h \in Handles : WF_vars(ReadBroadcast(h, "out"))
    /\ \A k \in Conns : WF_vars(ConnAdd(k))
    /\ \A k \in Conns : WF_vars(ConnBacklog(k))
    /\ \A k \in Conns : WF_vars(ConnRemove(k))

SpecLock == Init /\ [][NextLock]_vars /\ LockFairness

\* SpecFrame: two units and two launches; unit 1 is stopped and sent
\* commands by a caller, a websocket connection attaches to unit 2 and
\* detaches from it; the readers of stdout and the exit monitors of both
NextFrame ==
    \/ \E c \in 1..ConnCallers, u \in Units : Start(c, u, FairLim) /\ ret'[3] = "ok"
    \/ \E c \in 1..ConnCallers : Stop(c, 1)
    \/ \E c \in 1..ConnCallers : StopSteps(c)
    \/ \E c \in 1..ConnCallers : SendCommand(c, 1)
    \/ \E c \in 1..ConnCallers : SendWrite(c)
    \/ \E h \in Handles : ProcExit(h, {0})
    \/ \E h \in Handles : HandleSteps(h)
    \/ \E h \in Handles : ReadAppend(h, "out", ReadLines)
    \/ \E h \in Handles : ReadBroadcast(h, "out")
    \/ \E k \in 1..NumConns : ConnLookup(k, 2)
    \/ \E k \in 1..NumConns : ConnAdd(k)
    \/ \E k \in 1..NumConns : ConnBacklog(k)
    \/ \E k \in 1..NumConns : PeerDrop(k)
    \/ \E k \in 1..NumConns : ConnDetachLookup(k, 2)
    \/ \E k \in 1..NumConns : ConnRemove(k)
    \/ \E k \in 1..NumConns : ConnClose(k)

SpecFrame == Init /\ [][NextFrame]_vars

\* ------------------------------------------------------------------ claims
\* a handle exists from its launch until its process has ended and its exit
\* monitor has run its cleanup
HandleExists(h) == proc[h] # "none" /\ ~(proc[h] = "exited" /\ monPc[h] = "done")

\* C1: at any instant at most one Process Handle exists per unit.
C1_AtMostOneHandle ==
    \A u \in Units :
        Cardinality({h \in Handles : hUnit[h] = u /\ HandleExists(h)}) <= 1

\* C2: of the start calls on one unit with no stop and no process exit in
\* between, no more than one succeeds and launches a process.
C2_OneStartPerWindow == \A u \in Units : okStarts[u] <= 1

\* no start, stop, restart or exit cleanup of unit u is part-way through
Quiescent(u) ==
    /\ \A c \in Callers : pc[c] = "idle" \/ unit[c] # u
    /\ \A h \in Handles : hUnit[h] = u => monPc[h] \notin {"lock", "status", "close"}

\* C3: when no operation on the unit is part-way through, its stored status
\* is online if and only if a handle is registered for it.
C3_StatusIffRegistered ==
    \A u \in Units :
        Quiescent(u) => (status[u] = "online" <=> runningServers[u] # NoHandle)

\* the process of h ended with no stop of h requested before
Crashed(h) ==
    /\ proc[h] = "exited"
    /\ monPc[h] = "wait"
    /\ runningServers[hUnit[h]] = h
    /\ waiter[h] = "none"
    /\ \A c \in Callers : target[c] # h

\* a stop of h was requested after all
StopRequested(h) == waiter[h] # "none" \/ \E c \in Callers : target[c] = h

\* the cleanup for h has run: h is out of the table, its listeners are
\* closed, and unless the unit was started again it is offline
Settled(h) ==
    /\ monPc[h] = "done"
    /\ runningServers[hUnit[h]] # h
    /\ clients[h] = <<>>
    /\ runningServers[hUnit[h]] = NoHandle =>
           status[hUnit[h]] = "offline" /\ ~startedAt[hUnit[h]]

\* C4: when the process of a running unit ends with no stop requested, then
\* eventually the unit is out of the table, offline with its start time
\* cleared, and its listeners have been sent the final line and closed.
C4_CrashIsCleanedUp ==
    \A h \in Handles : Crashed(h) ~> (Settled(h) \/ StopRequested(h))

\* C5: whatever ends the process, a registered listener is closed by the
\* supervisor only right after a final line naming the exit code of its
\* handle's process.
C5_FinalLineNamesExitCode ==
    [][\A k \in Conns :
          (connPc[k] = "attached" /\ ~connClosed[k] /\ connClosed'[k]) =>
              connLast'[k] = ExitMsg(exitCode[connH[k]])]_vars

\* a call returned in this step
Returned == ret' # ret \/ \E c \in Callers : pc[c] # "idle" /\ pc'[c] = "idle"

\* C6: a stop of a unit with no registered handle returns NotRunning and
\* leaves the table, the status, the processes and the listeners as they
\* were; a stop never gets past its lookup without a registered handle.
C6_StopNotRunning ==
    [][/\ \A c \in Callers :
             (pc[c] = "idle" /\ pc'[c] = "stopW1" /\ op'[c] = "stop") =>
                 runningServers[unit'[c]] # NoHandle
       /\ (Returned /\ ret'[1] = "stop" /\ \A c \in Callers : pc[c] # "stopClean") =>
             /\ ret'[3] = "NotRunning"
             /\ runningServers[ret'[2]] = NoHandle
             /\ UNCHANGED <<tableVars, procVars, monVars, clients, connVars>>]_vars

\* C6 witness: a stop returned NotRunning while a process of the unit was
\* still running, out of the table
C6_Witness ==
    /\ ret = <<"stop", 1, "NotRunning">>
    /\ runningServers[1] = NoHandle
    /\ \E h \in Handles : proc[h] = "alive" /\ hUnit[h] = 1

\* C7: a stop that leaves its wait with the process still running has sent
\* the kill, and the call returns success.
C7_TimeoutKills ==
    [][\A c \in Callers :
          /\ (pc[c] = "stopSel" /\ pc'[c] # "stopSel" /\ proc[target[c]] = "alive") =>
                 killSent'[target[c]] /\ path'[c] = "timeout"
          /\ (pc[c] = "stopClean" /\ pc'[c] # "stopClean" /\ path[c] = "timeout") =>
                 /\ killSent[target[c]]
                 /\ op[c] = "stop" => ret' = <<"stop", unit[c], "ok">> /\ pc'[c] = "idle"
                 /\ op[c] = "restart" => pc'[c] = "rstSleep"]_vars

\* C7 witness: a stop returned success with the killed process not yet gone
C7_Witness ==
    /\ ret = <<"stop", 1, "ok">>
    /\ \E h \in Handles : killSent[h] /\ proc[h] = "alive"

StopPcs == {"stopW1", "stopW2", "stopSel", "stopClean"}

\* C8: every stop call eventually returns.
C8_StopReturns ==
    \A c \in Callers : (pc[c] \in StopPcs) ~> (pc[c] = "idle")

StartResults == {"ok", "AlreadyRunning", "InvalidCommand", "StreamSetupFailed",
                 "LaunchFailed"}

\* C9: restart never returns NotRunning. It reaches its start directly when
\* no handle is registered, else only after its stop has cleaned up and the
\* delay has passed; what it returns is what that start returns.
C9_RestartReturnsStart ==
    [][\A c \in Callers :
          /\ (pc[c] # "rstStart" /\ pc'[c] = "rstStart") =>
                 \/ pc[c] = "rstSleep"
                 \/ pc[c] = "idle" /\ runningServers[unit'[c]] = NoHandle
          /\ (pc[c] # "rstSleep" /\ pc'[c] = "rstSleep") =>
                 /\ pc[c] = "stopClean"
                 /\ runningServers'[unit[c]] = NoHandle
          /\ (Returned /\ ret'[1] = "restart") =>
                 /\ ret'[3] \in StartResults
                 /\ \E d \in Callers : pc[d] = "rstStart" /\ pc'[d] = "idle"
          /\ (op[c] = "restart" /\ pc'[c] = "idle") =>
                 /\ pc[c] = "rstStart"
                 /\ ret'[1] = "restart" /\ ret'[2] = unit[c]
                 /\ ret'[3] \in StartResults
                 /\ ret'[3] = "AlreadyRunning" <=> runningServers[unit[c]] # NoHandle
                 /\ ret'[3] = "ok" <=> nextH' = nextH + 1
                 /\ ret'[3] = "ok" =>
                        runningServers'[unit[c]] = nextH' /\ proc'[nextH'] = "alive"]_vars

\* C9 witness: a restart of a running unit went through stop and start
C9_Witness ==
    /\ ret = <<"restart", 1, "ok">>
    /\ nextH >= 2
    /\ runningServers[1] = nextH

LaunchErrs == {"InvalidCommand", "StreamSetupFailed", "LaunchFailed"}

\* C10: a start that fails with a launch error leaves no handle registered,
\* the status and every process and task as they were, and the lock free; a
\* start is rejected with AlreadyRunning only when a handle is registered.
C10_FailedStartLeavesNothing ==
    [][/\ (Returned /\ ret'[3] \in LaunchErrs) =>
              /\ runningServers'[ret'[2]] = NoHandle
              /\ serverMux' = 0
              /\ UNCHANGED <<tableVars, procVars, monVars, clients, connVars>>
       /\ (Returned /\ ret'[3] = "AlreadyRunning") =>
              runningServers[ret'[2]] # NoHandle]_vars

\* C10 witness: a start failed at launch, after an earlier launch, and the
\* unit has no entry and is offline
C10_Witness ==
    /\ ret[3] \in LaunchErrs
    /\ runningServers[ret[2]] = NoHandle
    /\ status[ret[2]] = "offline"
    /\ nextH >= 1

\* C11: sendCommand returns NotRunning exactly when no handle is registered
\* at its lookup; else it writes the text and one newline to the stdin of the
\* handle it looked up and returns ok, or returns WriteFailed when the process
\* is gone and nothing is written; it never changes the table or the status.
C11_SendCommand ==
    [][\A c \in Callers :
          /\ (pc[c] = "idle" /\ pc'[c] = "sendW") =>
                 /\ runningServers[unit'[c]] # NoHandle
                 /\ target'[c] = runningServers[unit'[c]]
                 /\ arg'[c] \in Commands
                 /\ UNCHANGED <<tableVars, procVars>>
          /\ (Returned /\ ret'[1] = "send" /\ ret'[3] = "NotRunning") =>
                 /\ runningServers[ret'[2]] = NoHandle
                 /\ \A d \in Callers : pc[d] = "sendW" => pc'[d] = "sendW"
                 /\ UNCHANGED <<tableVars, procVars>>
          /\ (pc[c] = "sendW" /\ pc'[c] # "sendW") =>
                 /\ ret' = <<"send", unit[c],
                             IF proc[target[c]] = "alive" THEN "ok" ELSE "WriteFailed">>
                 /\ ret'[3] = "ok" =>
                        stdinBuf' = [stdinBuf EXCEPT ![target[c]] =
                                        Append(@, arg[c] \o <<"\n">>)]
                 /\ ret'[3] = "WriteFailed" => stdinBuf' = stdinBuf
                 /\ UNCHANGED <<tableVars, nextH, hUnit, proc>>]_vars

\* C11 witness: commands were written to a running process and are still in
\* its pipe, and the last call, made after the process had gone but before its
\* entry was deleted, returned WriteFailed
C11_Witness ==
    /\ ret = <<"send", 1, "WriteFailed">>
    /\ runningServers[1] # NoHandle
    /\ \E h \in Handles : proc[h] = "alive" /\ <<"s", "a", "y", "\n">> = Head(stdinBuf[h] \o << <<>> >>)

\* a reader of h broadcasts the line of stream s in this step
Broadcasts(h, s) == rdPc[h][s] = "bcast" /\ rdPc'[h][s] = "scan"

\* closeAll runs on h in this step, in the exit monitor or in StopServer
ClosesAll(h) ==
    \/ monPc[h] = "close" /\ monPc'[h] = "done"
    \/ \E c \in Callers : pc[c] = "stopClean" /\ pc'[c] # "stopClean" /\ target[c] = h

\* k is in the registry of h and its attach has returned
Subscribed(k, h) ==
    k \in Members(clients[h]) /\ connPc[k] \in {"attached", "removing"}

\* C12: a subscriber in the registry of a handle, its attach completed, gets
\* every line a reader of the handle broadcasts, appended to what it already
\* got, unless its own write fails; it leaves the registry only by its detach,
\* by its own failed write or by closeAll.
C12_SubscriberGetsEveryLine ==
    [][\A h \in Handles, k \in Conns :
          Subscribed(k, h) =>
              /\ \A s \in Streams :
                     (Broadcasts(h, s) /\ WriteOk(k)) =>
                         /\ recv'[k] = Append(recv[k], <<"live", Line(s, rdN[h][s])>>)
                         /\ k \in Members(clients'[h])
              /\ k \notin Members(clients'[h]) =>
                     \/ connPc[k] = "removing" /\ connPc'[k] = "detached" /\ detH[k] = h
                     \/ \E s \in Streams : Broadcasts(h, s) /\ ~WriteOk(k)
                     \/ ClosesAll(h)
              /\ (\A s \in Streams : ~Broadcasts(h, s)) => recv'[k] = recv[k]]_vars

\* C12 witness: a subscriber that is still registered got a live line of each
\* stream, after the other subscriber, second in the registry, was dropped
\* for its failed write
C12_Witness ==
    \E k \in Conns, j \in Conns :
        /\ k # j
        /\ clients[1] = <<k>>
        /\ connPc[k] = "attached" /\ connPc[j] = "attached"
        /\ peerGone[j] /\ connH[j] = 1
        /\ {recv[k][i] : i \in 1..Len(recv[k])} =
               {<<"live", Line("out", 1)>>, <<"live", Line("err", 1)>>}

\* the lines k has received, backlog and live alike
Received(k) == [i \in 1..Len(recv[k]) |-> recv[k][i][2]]

C14_BacklogBeforeLive ==
    \A k \in Conns :
        \A i, j \in 1..Len(recv[k]) :
            i < j => ~(recv[k][i][1] = "live" /\ recv[k][j][1] = "backlog")

\* RemoveConsoleListener has returned for k
Detached(k) == connPc[k] \in {"detached", "closed"}

\* C15: once the detach of a subscriber has returned, no broadcast and no
\* closeAll writes to it: it is in the registry of no handle that a reader
\* broadcasts on or that closeAll runs on.
C15_NoDeliveryAfterDetach ==
    [][\A k \in Conns, h \in Handles :
          (Detached(k) /\ (ClosesAll(h) \/ \E s \in Streams : Broadcasts(h, s))) =>
              k \notin Members(clients[h])]_vars

\* cs without k, the others in their order
Without(cs, k) == SelectSeq(cs, LAMBDA x : x # k)

\* C16: a detach of a subscriber that is not in the registry, or of a unit
\* with no handle, changes no registry and nothing a connection has received;
\* a detach of a registered subscriber removes it alone and keeps the others
\* in their order.
C16_DetachIdempotent ==
    [][\A k \in Conns :
          /\ (connPc[k] \in {"attached", "refused"} /\ connPc'[k] \in {"removing", "detached"}) =>
                 /\ connPc'[k] = "detached" <=> runningServers[1] = NoHandle
                 /\ UNCHANGED <<clients, recv, connLast, connClosed, tableVars>>
          /\ (connPc[k] = "removing" /\ connPc'[k] # "removing") =>
                 /\ connPc'[k] = "detached"
                 /\ k \notin Members(clients[detH[k]]) => clients' = clients
                 /\ clients' = [clients EXCEPT ![detH[k]] = Without(@, k)]
                 /\ UNCHANGED <<recv, connLast, connClosed, tableVars>>]_vars

\* C16 witness: the detach of a connection that was refused and never
\* registered has returned, and the subscriber registered meanwhile is still
\* in the registry
C16_Witness ==
    \E k \in Conns, j \in Conns :
        /\ connPc[k] = "detached"
        /\ connH[k] = NoHandle /\ connLast[k] = NotRunningMsg
        /\ runningServers[1] = 1 /\ monPc[1] = "wait"
        /\ clients[1] = <<j>> /\ connPc[j] = "attached"

\* C17: a broadcast removes from the registry exactly the subscribers whose
\* write failed; every other one receives the line and stays, in the same
\* order; the reader goes back to reading, and no call returns an error.
C17_FailedWriteDropsOnlyItself ==
    [][\A h \in Handles, s \in Streams :
          Broadcasts(h, s) =>
              /\ clients' = [clients EXCEPT ![h] = SelectSeq(@, WriteOk)]
              /\ \A k \in Conns :
                     recv'[k] = IF k \in Members(clients[h]) /\ WriteOk(k)
                                THEN Append(recv[k], <<"live", Line(s, rdN[h][s])>>)
                                ELSE recv[k]
              /\ rdPc'[h][s] = "scan" /\ rdN' = rdN
              /\ UNCHANGED <<callVars, connPc, connClosed, tableVars, logs>>]_vars

\* C17 witness: the first of two registered subscribers had lost its peer; a
\* broadcast dropped it, and the second received the line and stays registered
C17_Witness ==
    \E k \in Conns, j \in Conns :
        /\ k # j
        /\ clients[1] = <<k>>
        /\ connPc[j] = "attached" /\ connH[j] = 1 /\ peerGone[j] /\ recv[j] = <<>>
        /\ early[j] = "returned" /\ early[k] = "returned"
        /\ recv[k] = << <<"live", Line("out", 1)>> >>
        /\ rdPc[1]["out"] = "scan" /\ rdN[1]["err"] = 0

\* ls is the last Len(ls) elements of all
IsSuffix(ls, all) ==
    /\ Len(ls) <= Len(all)
    /\ ls = SubSeq(all, Len(all) - Len(ls) + 1, Len(all))

\* C18: the buffer of a handle never holds more lines than its capacity, and
\* what it holds is a contiguous suffix of the lines appended to it, in the
\* order they were appended, with both readers appending.
C18_BufferBoundedSuffix ==
    \A h \in Handles : Len(logs[h]) <= LogCap /\ IsSuffix(logs[h], hist[h])

\* C18 witness: both readers appended in turn, more lines than the buffer
\* keeps, and the oldest were dropped
C18_Witness ==
    /\ Len(hist[1]) = 2 * LogLines
    /\ hist[1][1][1] # hist[1][2][1]
    /\ Len(logs[1]) = LogCap
    /\ logs[1] # hist[1]

\* the last n elements of all, all of it when it is no longer than n
LastN(all, n) ==
    IF Len(all) > n THEN SubSeq(all, Len(all) - n + 1, Len(all)) ELSE all

\* C19: what getLogs returns for a registered handle is exactly the last
\* LogCap lines appended to its buffer, in their order, when more than LogCap
\* were appended, and all the appended lines otherwise.
C19_SnapshotIsLastLines ==
    [][\A c \in Callers :
          (pc[c] = "logCopy" /\ pc'[c] = "idle") =>
              /\ ret' = <<"logs", unit[c], "ok">>
              /\ snap' = LastN(hist[target[c]], LogCap)]_vars

\* C19 witness: getLogs returned the last LogCap lines of a buffer that more
\* lines had been appended to
C19_Witness ==
    /\ ret = <<"logs", 1, "ok">>
    /\ Len(hist[1]) > LogCap
    /\ Len(snap) = LogCap
    /\ snap = SubSeq(hist[1], Len(hist[1]) - LogCap + 1, Len(hist[1]))

\* C20: the slice getLogs returns is the contents of the buffer at the
\* instant of the copy, taken with no append or replay part-way through; the
\* call changes no buffer, and no later step but another getLogs return
\* changes what was returned.
C20_SnapshotIsAtomicCopy ==
    [][/\ \A c \in Callers :
             (pc[c] = "logCopy" /\ pc'[c] = "idle") =>
                 /\ snap' = logs[target[c]]
                 /\ Len(snap') <= LogCap
                 /\ ~LogMuxHeld(target[c])
                 /\ UNCHANGED <<logs, hist, rdPc, rdN>>
       /\ snap' # snap =>
             /\ ret' = <<"logs", ret'[2], "ok">>
             /\ \E c \in Callers : pc[c] \in {"idle", "logCopy"} /\ pc'[c] = "idle"
             /\ UNCHANGED <<logs, hist>>
       /\ <<logs, hist>>' # <<logs, hist>> => snap' = snap]_vars

\* C20 witness: after getLogs returned a non-empty slice the buffer moved on:
\* a line was appended and the oldest dropped, and the slice is as returned
C20_Witness ==
    /\ ret = <<"logs", 1, "ok">>
    /\ Len(snap) = LogCap
    /\ Len(logs[1]) = LogCap
    /\ snap # logs[1]
    /\ \E n \in 1..Len(hist[1]) : snap = SubSeq(hist[1], n, n + LogCap - 1)

\* lines of one stream are in the order the process produced them
InStreamOrder(ls) ==
    \A i \in 1..Len(ls), j \in 1..Len(ls) :
        (i < j /\ ls[i][1] = ls[j][1]) => ls[i][2] <= ls[j][2]

\* C21: the lines of one stream are appended to the buffer in the order they
\* were produced, and every connection is sent them in that order; only the
\* order between a stdout line and a stderr line is free.
C21_StreamOrderKept ==
    /\ \A h \in Handles : InStreamOrder(hist[h])
    /\ \A k \in Conns : InStreamOrder(Received(k))

SupervisorState == <<tableVars, procVars, monVars, clients, connVars, logs, hist>>

\* C23: getStats returns no error and changes nothing of the supervisor; with
\* no handle registered it reports not running, process id 0 and memory 0;
\* with a handle registered it reports running with the id of its process,
\* and memory 0 when the memory of the process cannot be read.
C23_StatsNeverFails ==
    [][/\ \A c \in Callers :
             /\ (pc[c] = "idle" /\ pc'[c] = "statMem") =>
                    /\ target'[c] = runningServers[unit'[c]]
                    /\ target'[c] # NoHandle
                    /\ UNCHANGED <<SupervisorState, stats, ret>>
             /\ (pc[c] = "statMem" /\ pc'[c] = "idle") =>
                    /\ ret' = <<"stats", unit[c], "ok">>
                    /\ stats'.IsRunning
                    /\ stats'.PID = Pid(target[c]) /\ stats'.PID # 0
                    /\ proc[target[c]] # "alive" => stats'.MemoryMB = 0
                    /\ UNCHANGED SupervisorState
       /\ (/\ ret'[1] = "stats"
           /\ ret' # ret \/ stats' # stats
           /\ \A c \in Callers : pc[c] = "statMem" => pc'[c] = "statMem") =>
             /\ ret' = <<"stats", ret'[2], "ok">>
             /\ runningServers[ret'[2]] = NoHandle
             /\ stats' = Stats(FALSE, 0, 0)
             /\ UNCHANGED SupervisorState]_vars

\* C23 witness: the process of the registered handle had ended when its
\* memory was looked up: running, its process id, memory 0, no error
C23_Witness ==
    /\ ret = <<"stats", 1, "ok">>
    /\ stats = Stats(TRUE, Pid(1), 0)
    /\ proc[1] = "exited"
    /\ runningServers[1] = 1

\* index of the first 'm' of t, 0 when it has none
FirstM(t) ==
    IF \E i \in 1..Len(t) : t[i] = LetterM
    THEN CHOOSE i \in 1..Len(t) : t[i] = LetterM /\ \A j \in 1..(i - 1) : t[j] # LetterM
    ELSE 0

RECURSIVE WithoutEscapes(_)
\* t with every escape sequence deleted: a sequence starts at an ESC with '['
\* right after it and runs through the next 'm', or to the end of t
WithoutEscapes(t) ==
    IF t = <<>> THEN <<>>
    ELSE IF Len(t) >= 2 /\ t[1] = ESC /\ t[2] = LBracket
         THEN LET rest == SubSeq(t, 3, Len(t))
                  m == FirstM(rest)
              IN  IF m = 0 THEN <<>>
                  ELSE WithoutEscapes(SubSeq(rest, m + 1, Len(rest)))
    ELSE <<t[1]>> \o WithoutEscapes(Tail(t))

\* t has an ESC with '[' right after it
HasEscape(t) == \E i \in 1..(Len(t) - 1) : t[i] = ESC /\ t[i + 1] = LBracket

\* C24: for every line the sanitizer returns the line with every escape
\* sequence deleted (ESC '[' through the next 'm', or through the end of the
\* line) and every other byte, an ESC without '[' after it included, kept in
\* its place; a line without escape sequence is returned as it is; the
\* sanitizer returns for every line.
C24_StripDeletesEscapes ==
    /\ cleanLine = <<>> => ENABLED Strip
    /\ cleanLine # <<>> =>
          /\ cleanLine[1] = WithoutEscapes(rawLine)
          /\ ~HasEscape(rawLine) => cleanLine[1] = rawLine

\* the positions of a call at a blocking operation: a write to the stdin
\* pipe, the wait for the exit of the process or the timeout
BlockingPcs == {"stopW1", "stopW2", "stopSel", "sendW"}

\* C25: serverMux is held only to read or change runningServers: no call
\* holds it while it writes to the stdin of the process or waits for the
\* process to exit or for the timeout.
C25_TableLockOnlyForMap ==
    \A c \in Callers : serverMux = c => pc[c] \notin BlockingPcs

\* C26: units do not wait for each other: while a stop of one unit waits for
\* its process to exit, a call on another unit can make its lookup, and the
\* exit monitor of a handle of another unit can make its removal.
C26_UnitsIndependent ==
    \A c \in Callers :
        pc[c] = "stopSel" =>
            /\ \A d \in Callers, u \in Units :
                   (pc[d] = "idle" /\ u # unit[c]) =>
                       ENABLED (Stop(d, u) \/ SendCommand(d, u))
            /\ \A h \in Handles :
                   (monPc[h] = "lock" /\ hUnit[h] # unit[c]) => ENABLED MonDelete(h)

\* a StopServer is under way on handle h: a call between its lookup and its
\* cleanup, or its goroutine in Cmd.Wait()
StopUnderWay(h) ==
    \/ waiter[h] # "none"
    \/ \E c \in Callers : target[c] = h /\ pc[c] \in StopPcs

\* the lifecycle state of handle h; Starting is the inside of the step that
\* launches the process and registers the handle
LifeState(h) ==
    IF proc[h] = "none" THEN "Starting"
    ELSE IF proc[h] = "exited" THEN "Exited"
    ELSE IF StopUnderWay(h) THEN "Stopping"
    ELSE "Running"

\* the state changes of handle h in a step are among moves
MovesWithin(moves) ==
    \A h \in Handles :
        LifeState(h)' # LifeState(h) => <<LifeState(h), LifeState(h)'>> \in moves

\* C27: a handle goes from Starting to Running to Stopping to Exited and
\* skips no state: it never goes from Running to Exited without Stopping, and
\* it never leaves Exited.
C27_LifecycleInOrder ==
    [][MovesWithin({<<"Starting", "Running">>, <<"Running", "Stopping">>,
                    <<"Stopping", "Exited">>})]_vars

\* C27 as the code has it: the same order, and from Running straight to
\* Exited when the process ends by itself with no stop under way and no kill
\* sent.
C27_LifecycleWithCrash ==
    [][/\ MovesWithin({<<"Starting", "Running">>, <<"Running", "Stopping">>,
                       <<"Stopping", "Exited">>, <<"Running", "Exited">>})
       /\ \A h \in Handles :
             (LifeState(h) = "Running" /\ LifeState(h)' = "Exited") =>
                 /\ ~killSent[h] /\ ~StopUnderWay(h)
                 /\ monPc[h] = "wait" /\ monPc'[h] = "wait"]_vars

\* C27 witness: one handle was stopped and has exited under the stop, the
\* next one ended by itself while it was running and its monitor has seen it
C27_Witness ==
    /\ proc[1] = "exited" /\ ret = <<"stop", 1, "ok">>
    /\ proc[2] = "exited" /\ monPc[2] = "lock" /\ waiter[2] = "none"
    /\ \A c \in Callers : pc[c] = "idle"

\* the final lines of StopServer and of monitorProcess
FinalMsgs == {StoppedMsg} \cup {ExitMsg(code) : code \in ExitCodes \cup {SignalCode}}

\* C28: the cleanup of a handle is in order: the exit monitor first removes
\* the entry, then sets the status to offline, then sends the final line and
\* closes the connections, and StopServer does the same in one go; so when a
\* connection of a handle is sent the final line of that handle, the handle is
\* not registered.
C28_CleanupInOrder ==
    [][\A h \in Handles :
          /\ (monPc[h] = "lock" /\ monPc'[h] # "lock") =>
                 /\ monPc'[h] = "status"
                 /\ runningServers'[hUnit[h]] = NoHandle
                 /\ UNCHANGED <<status, startedAt, clients, connLast, connClosed>>
          /\ (monPc[h] = "status" /\ monPc'[h] # "status") =>
                 /\ monPc'[h] = "close"
                 /\ runningServers[hUnit[h]] # h
                 /\ status'[hUnit[h]] = "offline" /\ ~startedAt'[hUnit[h]]
                 /\ UNCHANGED <<runningServers, clients, connLast, connClosed>>
          /\ (monPc[h] = "close" /\ monPc'[h] # "close") =>
                 /\ monPc'[h] = "done"
                 /\ runningServers[hUnit[h]] # h
                 /\ UNCHANGED <<runningServers, status, startedAt>>
          /\ ClosesAll(h) =>
                 /\ runningServers'[hUnit[h]] # h
                 /\ clients'[h] = <<>>
                 /\ \A k \in Members(clients[h]) :
                        /\ connClosed'[k]
                        /\ ~connClosed[k] => connLast'[k] \in FinalMsgs
          /\ (\E c \in Callers : pc[c] = "stopClean" /\ pc'[c] # "stopClean"
                                  /\ target[c] = h) =>
                 /\ runningServers'[hUnit[h]] = NoHandle
                 /\ status'[hUnit[h]] = "offline"]_vars

\* C28 witness: the exit monitor of a handle has sent its final line to the
\* connection and closed it, and the unit has no entry and is offline
C28_Witness ==
    /\ connPc[1] = "attached" /\ connH[1] = 1 /\ connClosed[1]
    /\ connLast[1] = ExitMsg(1)
    /\ monPc[1] = "done" /\ clients[1] = <<>>
    /\ runningServers[1] = NoHandle /\ status[1] = "offline"

\* C29: the final line to every connection, their Close and the emptying of
\* the registry are done once for a handle, by its exit monitor and by no
\* other operation, and no connection that is closed is closed again.
C29_CloseAllOnlyAtExit ==
    [][\A h \in Handles :
          ClosesAll(h) =>
              /\ monPc[h] = "close" /\ monPc'[h] = "done"
              /\ \A k \in Members(clients[h]) : ~connClosed[k]]_vars

\* C30: a connection whose writes do not return blocks nobody: the reader
\* ends every broadcast and goes on with its scan, and an attach, a detach
\* and the closeAll of the exit monitor on the same handle get done.
C30_StalledPeerBlocksNobody ==
    /\ \A h \in Handles : (rdPc[h]["out"] = "bcast") ~> (rdPc[h]["out"] = "scan")
    /\ \A k \in Conns : (connPc[k] = "adding") ~> (connPc[k] # "adding")
    /\ \A k \in Conns : (connPc[k] = "removing") ~> (connPc[k] # "removing")
    /\ \A h \in Handles : (monPc[h] = "close") ~> (monPc[h] = "done")

\* the goroutines started for handle h have returned: its two readers, its
\* exit monitor, and the goroutine of StopServer in Cmd.Wait()
TasksEnded(h) ==
    /\ \A s \in Streams : rdPc[h][s] = "done"
    /\ monPc[h] = "done"
    /\ waiter[h] # "waiting"

\* C31: once the process of a handle has ended, its two readers, its exit
\* monitor and the waiting goroutine of stop all return in the end, after a
\* graceful stop and after a kill alike; and the return of a reader changes
\* neither the table nor the status of the unit.
C31_TasksEndAfterExit ==
    /\ \A h \in Handles : (proc[h] = "exited") ~> TasksEnded(h)
    /\ [][\A h \in Handles, s \in Streams :
              (rdPc[h][s] = "scan" /\ rdPc'[h][s] = "done") =>
                  UNCHANGED <<runningServers, status>>]_vars

\* the handle registered for the unit of h is another one than h
NewerRegistered(h) == runningServers[hUnit[h]] \notin {h, NoHandle}

\* C32: the cleanup of a handle, in its exit monitor and in stop, removes
\* from the table only that handle and writes offline only for it: when a
\* newer handle of the unit is registered, the older one's cleanup neither
\* removes it nor sets the unit offline while the newer process runs.
C32_CleanupOnlyOwnHandle ==
    [][/\ \A h \in Handles :
             (monPc[h] = "lock" /\ monPc'[h] = "status" /\ NewerRegistered(h)) =>
                 runningServers'[hUnit[h]] = runningServers[hUnit[h]]
       /\ \A h \in Handles :
             (monPc[h] = "status" /\ monPc'[h] = "close" /\ NewerRegistered(h)
              /\ proc[runningServers[hUnit[h]]] = "alive") =>
                 status'[hUnit[h]] = status[hUnit[h]]
       /\ \A c \in Callers :
             (pc[c] = "stopClean" /\ pc'[c] # "stopClean") =>
                 runningServers[unit[c]] = target[c]]_vars

\* C33: once the exit monitor of a handle has sent the final line, closed the
\* clients and emptied sp.Clients, the subscriber set of that handle stays
\* empty: no attach that looked the handle up earlier leaves a connection
\* registered on it, open and never to be sent a final line.
C33_NoSubscriberOnDeadHandle ==
    \A h \in Handles : monPc[h] = "done" => clients[h] = <<>>

\* the replay loop of AddConsoleListener for k is under way and this step is
\* not one of its own
OthersStepInReplay(k) ==
    connPc[k] = "backlog" /\ connPc'[k] = "backlog" /\ connIdx'[k] = connIdx[k]

\* this step is a WriteMessage of the replay loop of k
ReplayWrites(k) ==
    /\ connPc[k] \in {"logLock", "backlog"}
    /\ connIdx[k] < Len(logs[connH[k]])
    /\ connPc'[k] # connPc[k] \/ connIdx'[k] # connIdx[k]

\* C34: the sends and the close on one connection exclude each other: while
\* the replay of the backlog to a connection is under way no reader writes a
\* line to it and no cleanup writes its final line and closes it, and nothing
\* is written to a connection after the supervisor has closed it.
C34_OneWriterPerTransport ==
    [][\A k \in Conns :
          /\ OthersStepInReplay(k) =>
                 /\ recv'[k] = recv[k]
                 /\ connLast'[k] = connLast[k]
                 /\ connClosed'[k] = connClosed[k]
          /\ ReplayWrites(k) => ~connClosed[k]]_vars

\* C35: the table lock, the log lock and the subscriber-set lock of a handle
\* are never waited for in a cycle: while sends to subscribers complete and
\* processes exit, no lock stays held for ever, and no goroutine stays for
\* ever at a point where it waits for one of them: the exit
\* monitor at the table lock and at the subscriber-set lock, a reader at its
\* broadcast, attach at the subscriber-set lock and at the log lock, detach
\* at the subscriber-set lock, GetLogs at the log lock, stop at its cleanup.
C35_LocksAlwaysGranted ==
    /\ \A c \in Callers : []<>(serverMux # c)
    /\ \A h \in Handles : []<>(~LogMuxHeld(h))
    /\ \A h \in Handles : []<>(~ClientMuxHeld(h))
    /\ \A h \in Handles : []<>(monPc[h] \notin {"lock", "close"})
    /\ \A h \in Handles, s \in Streams : []<>(rdPc[h][s] # "bcast")
    /\ \A k \in Conns : []<>(connPc[k] \notin {"adding", "logLock", "removing"})
    /\ \A c \in Callers : []<>(pc[c] \notin {"logCopy", "stopClean"})

\* C35 witness: stop holds the table lock and waits for the process, whose
\* exit monitor waits for the table lock, while attach holds the log lock in
\* its replay
C35_Witness ==
    \E c \in Callers, h \in Handles, k \in Conns :
        /\ serverMux = c /\ target[c] = h
        /\ monPc[h] = "lock"
        /\ connPc[k] = "backlog" /\ connH[k] = h

C37_KillOnlyOnTimeout ==
    [][\A h \in Handles :
          (killSent'[h] /\ ~killSent[h]) =>
              /\ proc[h] = "alive"
              /\ \E c \in Callers :
                     /\ pc[c] = "stopSel" /\ target[c] = h
                     /\ pc'[c] = "stopClean" /\ path'[c] = "timeout"]_vars

\* C37 witness: the process ended during the wait of stop, which goes on to
\* its cleanup with no kill sent, while commands were written and a
\* connection is attached
C37_Witness ==
    \E c \in Callers, k \in Conns :
        /\ pc[c] = "stopClean" /\ path[c] = "graceful"
        /\ proc[target[c]] = "exited" /\ ~killSent[target[c]]
        /\ connPc[k] = "attached" /\ connH[k] = target[c]

\* what the supervisor keeps for unit b: its table entry, its status, and the
\* log buffer and the subscriber set of each of its handles
UnitState(b) ==
    <<runningServers[b], status[b],
      [h \in Handles |-> IF hUnit[h] = b THEN <<logs[h], clients[h]>> ELSE <<>>]>>

\* the units the goroutines that take this step work for: the unit of a call,
\* the unit of the handle of a process, reader or exit monitor, the unit of
\* the handle a connection attaches to or detaches from
StepUnits ==
    {unit[c] : c \in {d \in Callers : pc'[d] # pc[d]}}
    \cup {hUnit'[h] : h \in {g \in Handles : \/ proc'[g] # proc[g]
                                             \/ monPc'[g] # monPc[g]
                                             \/ waiter'[g] # waiter[g]
                                             \/ rdPc'[g] # rdPc[g]}}
    \cup {hUnit[connH[k]] : k \in {j \in Conns : connPc'[j] # connPc[j]
                                                 /\ connH[j] # NoHandle}}
    \cup {hUnit[detH[k]] : k \in {j \in Conns : connPc'[j] # connPc[j]
                                                /\ detH[j] # NoHandle}}

\* C38: a step of an operation on one unit (start, stop, sendCommand, attach,
\* detach, a reader's append and broadcast, the exit monitor's cleanup)
\* leaves the table entry, the status, the log buffers and the subscriber
\* sets of every other unit as they were.
C38_OtherUnitsUntouched ==
    [][\A b \in Units : UnitState(b)' # UnitState(b) => b \in StepUnits]_vars

\* C38 witness: unit 1 was stopped while unit 2 runs with a line in its log
\* buffer and a connection in its subscriber set
C38_Witness ==
    /\ ret = <<"stop", 1, "ok">>
    /\ runningServers[1] = NoHandle /\ status[1] = "offline"
    /\ runningServers[2] # NoHandle /\ status[2] = "online"
    /\ \E h \in Handles :
           runningServers[2] = h /\ logs[h] # <<>> /\ clients[h] # <<>>

\* the lines k was sent by the broadcast of a reader, in the order of arrival
LiveLines(k) ==
    LET live == SelectSeq(recv[k], LAMBDA m : m[1] = "live") IN
    [i \in 1..Len(live) |-> live[i][2]]

\* C39: two lines of one process that are both in its log buffer and were
\* both sent live to one connection reached the connection in the order they
\* have in the buffer, a stdout line and a stderr line included.
C39_DeliveryFollowsStorage ==
    \A k \in Conns :
        connH[k] # NoHandle =>
            LET buf == logs[connH[k]]
                got == LiveLines(k)
            IN  \A i \in 1..Len(got), j \in 1..Len(got) :
                    (/\ i < j
                     /\ IndexFrom(buf, got[i], 1) # 0
                     /\ IndexFrom(buf, got[j], 1) # 0) =>
                        IndexFrom(buf, got[i], 1) < IndexFrom(buf, got[j], 1)

\* C40: the sanitizer applied to its own output returns that output, and the
\* output has no ESC with '[' right after it.
C40_StripIdempotent ==
    cleanLine # <<>> =>
        /\ stripAnsiCodes(cleanLine[1]) = cleanLine[1]
        /\ ~HasEscape(cleanLine[1])
====
